---- MODULE Spec2Model ----
(***************************************************************************)
(* Divination computation engine of the astrologer bot: the numerology     *)
(* calculator, the tarot engine and the chart calculator, each modelled as *)
(* a service whose operations are called with inputs drawn from bounded    *)
(* sets.  A state records the last call (call), what it returned (ret),    *)
(* the tarot service's deck, the number of deck shuffles performed and the *)
(* number of ephemeris provider calls the current request has made.        *)
(* Requests served at the same time are threads: each has its own working  *)
(* values (threads), and all of them read the tables the services were     *)
(* constructed with (tables, and the deck).                                *)
(* The Telegram bot in front of the services keeps a conversation state    *)
(* per user (user_states) and the users, horoscopes and tarot_readings     *)
(* tables (db), and reads the clock (clock); an update it handles is       *)
(* recorded in call with the state it met, the texts it sent in ret.       *)
(***************************************************************************)
EXTENDS Integers, Sequences, FiniteSets, TLC

VARIABLES call, ret, deck, shuffleCount, providerCalls, threads, tables,
          user_states, db, clock

\* the state outside the three services called one request at a time
restVars == <<threads, tables, user_states, db, clock>>

vars == <<call, ret, deck, shuffleCount, providerCalls, threads, tables,
          user_states, db, clock>>

(***************************************************************************)
(* Bounds of the model.                                                    *)
(***************************************************************************)
\* reduce_to_single_digit is called on 0..MaxNumber
MaxNumber == 999
\* full names have at most MaxNameLen characters
MaxNameLen == 3
\* digit-sum iterations the statements about reduce_to_single_digit look at
MaxReduceSteps == 4
\* get_number_meaning is called with the numbers 0..MaxMeaningNumber
MaxMeaningNumber == 34

(***************************************************************************)
(* Characters and strings.  A string is a sequence of one-character        *)
(* strings.                                                                *)
(***************************************************************************)
DigitChars == <<"0", "1", "2", "3", "4", "5", "6", "7", "8", "9">>

\* int(digit) for a one-character decimal string
IntOfDigit(c) == (CHOOSE i \in 1..10 : DigitChars[i] = c) - 1

\* str(n) for a non-negative integer
RECURSIVE StrOfInt(_)
StrOfInt(n) ==
    IF n < 10 THEN <<DigitChars[n + 1]>>
    ELSE Append(StrOfInt(n \div 10), DigitChars[(n % 10) + 1])

\* int(s) for a string of decimal digits
RECURSIVE IntOfStr(_)
IntOfStr(s) ==
    IF Len(s) = 0 THEN 0
    ELSE 10 * IntOfStr(SubSeq(s, 1, Len(s) - 1)) + IntOfDigit(s[Len(s)])

\* f"{n:0{width}d}": str(n) left-padded with zeros to the width
RECURSIVE ZeroPad(_, _)
ZeroPad(s, width) == IF Len(s) >= width THEN s ELSE ZeroPad(<<"0">> \o s, width)

\* sum(int(digit) for digit in s)
RECURSIVE SumDigits(_)
SumDigits(s) == IF s = <<>> THEN 0 ELSE IntOfDigit(Head(s)) + SumDigits(Tail(s))

UpperLetters == <<"A", "B", "C", "D", "E", "F", "G", "H", "I", "J", "K", "L", "M",
                  "N", "O", "P", "Q", "R", "S", "T", "U", "V", "W", "X", "Y", "Z">>
LowerLetters == <<"a", "b", "c", "d", "e", "f", "g", "h", "i", "j", "k", "l", "m",
                  "n", "o", "p", "q", "r", "s", "t", "u", "v", "w", "x", "y", "z">>

IsUpper(c) == \E i \in 1..26 : UpperLetters[i] = c
IsLower(c) == \E i \in 1..26 : LowerLetters[i] = c

\* str.upper() on one ASCII character
UpperChar(c) ==
    IF IsLower(c) THEN UpperLetters[CHOOSE i \in 1..26 : LowerLetters[i] = c] ELSE c

\* str.upper() on one character: the letter ß becomes the two letters SS, an
\* ASCII lower-case letter its capital, the other characters stay
UpperString(c) == IF c = "ß" THEN <<"S", "S">> ELSE <<UpperChar(c)>>

\* full_name.upper()
RECURSIVE Upper(_)
Upper(s) == IF s = <<>> THEN <<>> ELSE UpperString(Head(s)) \o Upper(Tail(s))

\* re.sub(r'[^A-Za-z]', '', s): drops every character that is no ASCII letter
RECURSIVE StripNonLetters(_)
StripNonLetters(s) ==
    IF s = <<>> THEN <<>>
    ELSE IF IsUpper(Head(s)) \/ IsLower(Head(s))
         THEN <<Head(s)>> \o StripNonLetters(Tail(s))
         ELSE StripNonLetters(Tail(s))

(***************************************************************************)
(* NumerologyService                                                       *)
(***************************************************************************)
\* faulty variant: the value of the k-th letter is k mod 9, so I and R count 0
letter_values_mod9 ==
    [c \in {UpperLetters[i] : i \in 1..26} |->
        (CHOOSE i \in 1..26 : UpperLetters[i] = c) % 9]

letter_values ==
    [c \in {UpperLetters[i] : i \in 1..26} |->
        CASE c \in {"A", "J", "S"} -> 1
          [] c \in {"B", "K", "T"} -> 2
          [] c \in {"C", "L", "U"} -> 3
          [] c \in {"D", "M", "V"} -> 4
          [] c \in {"E", "N", "W"} -> 5
          [] c \in {"F", "O", "X"} -> 6
          [] c \in {"G", "P", "Y"} -> 7
          [] c \in {"H", "Q", "Z"} -> 8
          [] c \in {"I", "R"} -> 9]

master_numbers == {11, 22, 33}

vowels == {"A", "E", "I", "O", "U"}

\* faulty variant: the reduction is applied once instead of in a loop
reduce_once(number) ==
    IF number > 9 /\ number \notin master_numbers
    THEN SumDigits(StrOfInt(number)) ELSE number

\* faulty variant: master numbers are not preserved
RECURSIVE reduce_no_master(_)
reduce_no_master(number) ==
    IF number > 9 THEN reduce_no_master(SumDigits(StrOfInt(number))) ELSE number

RECURSIVE reduce_to_single_digit(_)
reduce_to_single_digit(number) ==
    IF number > 9 /\ number \notin master_numbers
    THEN reduce_to_single_digit(SumDigits(StrOfInt(number)))
    ELSE number

\* a birth date is a record [year, month, day]; NoDate stands for None
NoDate == [year |-> 0, month |-> 0, day |-> 0]

\* a full name is a sequence of characters; NoName stands for None
NoName == <<"<None>">>

\* faulty variant: the two-digit year format %y
strftime_mdy2(d) ==
    ZeroPad(StrOfInt(d.month), 2) \o ZeroPad(StrOfInt(d.day), 2)
        \o ZeroPad(StrOfInt(d.year % 100), 2)

\* birth_date.strftime("%m%d%Y")
strftime_mdY(d) ==
    ZeroPad(StrOfInt(d.month), 2) \o ZeroPad(StrOfInt(d.day), 2)
        \o ZeroPad(StrOfInt(d.year), 4)

\* faulty variant: the except clause of a missing date returns 0
life_path_missing_is_zero(birth_date) ==
    IF birth_date = NoDate THEN 0
    ELSE reduce_to_single_digit(SumDigits(strftime_mdY(birth_date)))

\* None.strftime raises AttributeError, which the except clause turns into 1
calculate_life_path_number(birth_date) ==
    IF birth_date = NoDate THEN 1
    ELSE reduce_to_single_digit(SumDigits(strftime_mdY(birth_date)))

\* the loop "for letter in clean_name: if keep(letter) and letter in letter_values"
RECURSIVE SumLetters(_, _)
SumLetters(clean_name, keep) ==
    IF clean_name = <<>> THEN 0
    ELSE (IF Head(clean_name) \in keep /\ Head(clean_name) \in DOMAIN letter_values
          THEN letter_values[Head(clean_name)] ELSE 0)
         + SumLetters(Tail(clean_name), keep)

CleanName(full_name) == StripNonLetters(Upper(full_name))

\* faulty variant: an empty clean name is treated as an error (returns 1)
expression_empty_is_error(full_name) ==
    IF full_name = NoName \/ CleanName(full_name) = <<>> THEN 1
    ELSE reduce_to_single_digit(SumLetters(CleanName(full_name), DOMAIN letter_values))

\* None.upper() raises AttributeError, which the except clause turns into 1
calculate_expression_number(full_name) ==
    IF full_name = NoName THEN 1
    ELSE reduce_to_single_digit(SumLetters(CleanName(full_name), DOMAIN letter_values))

\* faulty variant: the vowel filter is dropped
soul_urge_all_letters(full_name) ==
    IF full_name = NoName THEN 1
    ELSE reduce_to_single_digit(SumLetters(CleanName(full_name), DOMAIN letter_values))

calculate_soul_urge_number(full_name) ==
    IF full_name = NoName THEN 1
    ELSE reduce_to_single_digit(SumLetters(CleanName(full_name), vowels))

calculate_personality_number(full_name) ==
    IF full_name = NoName THEN 1
    ELSE reduce_to_single_digit(
             SumLetters(CleanName(full_name), DOMAIN letter_values \ vowels))

calculate_birth_day_number(birth_date) ==
    IF birth_date = NoDate THEN 1 ELSE reduce_to_single_digit(birth_date.day)

\* faulty variant: month and day are added as numbers, not digit by digit
attitude_month_plus_day(birth_date) ==
    IF birth_date = NoDate THEN 1
    ELSE reduce_to_single_digit(birth_date.month + birth_date.day)

calculate_attitude_number(birth_date) ==
    IF birth_date = NoDate THEN 1
    ELSE LET month_day == IntOfStr(ZeroPad(StrOfInt(birth_date.month), 2)
                                   \o ZeroPad(StrOfInt(birth_date.day), 2))
         IN  reduce_to_single_digit(SumDigits(StrOfInt(month_day)))

calculate_all_numbers(full_name, birth_date) ==
    [life_path   |-> calculate_life_path_number(birth_date),
     expression  |-> calculate_expression_number(full_name),
     soul_urge   |-> calculate_soul_urge_number(full_name),
     personality |-> calculate_personality_number(full_name),
     birth_day   |-> calculate_birth_day_number(birth_date),
     attitude    |-> calculate_attitude_number(birth_date)]

\* The texts of get_number_meaning, keyed by the number.
life_path_meanings ==
    (1 :> "The Leader - Independent, pioneering, ambitious, and strong-willed. Natural born leaders who are innovative and original.")
    @@ (2 :> "The Peacemaker - Cooperative, diplomatic, sensitive, and patient. Excellent mediators who work well with others.")
    @@ (3 :> "The Creative - Artistic, expressive, optimistic, and inspiring. Natural entertainers with great communication skills.")
    @@ (4 :> "The Builder - Practical, hardworking, reliable, and organized. Excellent at creating solid foundations and systems.")
    @@ (5 :> "The Freedom Seeker - Adventurous, versatile, curious, and progressive. Love variety and freedom in all aspects of life.")
    @@ (6 :> "The Nurturer - Caring, responsible, protective, and healing. Natural caregivers who put family and community first.")
    @@ (7 :> "The Seeker - Analytical, introspective, spiritual, and mysterious. Deep thinkers who seek truth and understanding.")
    @@ (8 :> "The Achiever - Ambitious, material-focused, powerful, and business-minded. Natural ability to achieve material success.")
    @@ (9 :> "The Humanitarian - Compassionate, generous, idealistic, and romantic. Dedicated to serving humanity and making the world better.")
    @@ (11 :> "The Intuitive - Highly intuitive, spiritual, inspirational, and visionary. Master number with great potential for enlightenment.")
    @@ (22 :> "The Master Builder - Practical visionary, capable of turning dreams into reality. Master number with great potential for achievement.")
    @@ (33 :> "The Master Teacher - Highly evolved spiritual teacher, healer, and guide. Master number dedicated to uplifting humanity.")

expression_meanings ==
    (1 :> "Destined to be a leader and pioneer. Your purpose is to initiate new projects and lead others toward success.")
    @@ (2 :> "Destined to be a peacemaker and diplomat. Your purpose is to bring harmony and cooperation to relationships.")
    @@ (3 :> "Destined to be a creative communicator. Your purpose is to inspire and entertain others through artistic expression.")
    @@ (4 :> "Destined to be a builder and organizer. Your purpose is to create stable foundations and practical solutions.")
    @@ (5 :> "Destined to be an adventurer and freedom fighter. Your purpose is to experience life fully and inspire change.")
    @@ (6 :> "Destined to be a nurturer and healer. Your purpose is to care for others and create harmonious environments.")
    @@ (7 :> "Destined to be a seeker of truth. Your purpose is to develop wisdom and share spiritual insights.")
    @@ (8 :> "Destined to achieve material success. Your purpose is to master the material world and achieve recognition.")
    @@ (9 :> "Destined to serve humanity. Your purpose is to be a humanitarian and make the world a better place.")
    @@ (11 :> "Destined to be a spiritual messenger. Your purpose is to inspire and enlighten others through intuitive wisdom.")
    @@ (22 :> "Destined to be a master builder. Your purpose is to create something of lasting value for humanity.")
    @@ (33 :> "Destined to be a master teacher. Your purpose is to heal and uplift humanity through compassionate service.")

soul_urge_meanings ==
    (1 :> "Deep desire for independence and leadership. You want to be first and make your own decisions.")
    @@ (2 :> "Deep desire for peace and cooperation. You want harmony in relationships and to work with others.")
    @@ (3 :> "Deep desire for creative self-expression. You want to communicate, create, and inspire others.")
    @@ (4 :> "Deep desire for security and order. You want stability, organization, and practical achievements.")
    @@ (5 :> "Deep desire for freedom and adventure. You want variety, travel, and new experiences.")
    @@ (6 :> "Deep desire to nurture and heal. You want to care for others and create beautiful, harmonious environments.")
    @@ (7 :> "Deep desire for knowledge and understanding. You want to discover truth and develop spiritual wisdom.")
    @@ (8 :> "Deep desire for material success and recognition. You want to achieve power and financial security.")
    @@ (9 :> "Deep desire to serve humanity. You want to make a difference in the world and help others.")
    @@ (11 :> "Deep desire for spiritual enlightenment. You want to inspire others and serve as a spiritual guide.")
    @@ (22 :> "Deep desire to build something meaningful. You want to create lasting achievements that benefit humanity.")
    @@ (33 :> "Deep desire to heal and teach. You want to serve as a compassionate guide and healer for others.")

personality_meanings ==
    (1 :> "Others see you as confident, independent, and strong. You appear to be a natural leader.")
    @@ (2 :> "Others see you as gentle, cooperative, and diplomatic. You appear to be a peacemaker.")
    @@ (3 :> "Others see you as creative, charming, and entertaining. You appear to be artistic and expressive.")
    @@ (4 :> "Others see you as reliable, practical, and hardworking. You appear to be stable and trustworthy.")
    @@ (5 :> "Others see you as adventurous, versatile, and exciting. You appear to be dynamic and progressive.")
    @@ (6 :> "Others see you as caring, responsible, and nurturing. You appear to be a natural caregiver.")
    @@ (7 :> "Others see you as mysterious, analytical, and wise. You appear to be deep and spiritual.")
    @@ (8 :> "Others see you as successful, ambitious, and powerful. You appear to be business-minded and authoritative.")
    @@ (9 :> "Others see you as compassionate, generous, and idealistic. You appear to be humanitarian and wise.")
    @@ (11 :> "Others see you as intuitive, inspiring, and spiritual. You appear to be a visionary and guide.")
    @@ (22 :> "Others see you as capable, practical, and visionary. You appear to be a master builder.")
    @@ (33 :> "Others see you as healing, teaching, and compassionate. You appear to be a spiritual guide.")

\* the tables of the categories that have one
meanings ==
    [life_path |-> life_path_meanings,
     expression |-> expression_meanings,
     soul_urge |-> soul_urge_meanings,
     personality |-> personality_meanings]

\* default meanings for other number types
default_meanings ==
    (1 :> "Leadership, independence, new beginnings")
    @@ (2 :> "Cooperation, balance, relationships")
    @@ (3 :> "Creativity, communication, joy")
    @@ (4 :> "Stability, hard work, foundation")
    @@ (5 :> "Freedom, adventure, change")
    @@ (6 :> "Nurturing, responsibility, home")
    @@ (7 :> "Spirituality, analysis, introspection")
    @@ (8 :> "Material success, power, achievement")
    @@ (9 :> "Humanitarian service, completion, wisdom")
    @@ (11 :> "Intuition, inspiration, enlightenment")
    @@ (22 :> "Master builder, practical visionary")
    @@ (33 :> "Master teacher, healer, guide")

\* faulty variant: the generic text is looked up first, the table second
get_number_meaning_default_first(number, number_type) ==
    LET number_meanings == IF number_type \in DOMAIN meanings THEN meanings[number_type]
                           ELSE [x \in {} |-> x]
    IN  IF number \in DOMAIN default_meanings THEN default_meanings[number]
        ELSE IF number \in DOMAIN number_meanings THEN number_meanings[number]
        ELSE "Unknown meaning"

\* meanings.get(number_type, {}).get(number, default_meanings.get(number, "Unknown meaning"))
get_number_meaning(number, number_type) ==
    LET number_meanings == IF number_type \in DOMAIN meanings THEN meanings[number_type]
                           ELSE [x \in {} |-> x]
    IN  IF number \in DOMAIN number_meanings THEN number_meanings[number]
        ELSE IF number \in DOMAIN default_meanings THEN default_meanings[number]
        ELSE "Unknown meaning"

\* birth_date.strftime("%Y-%m-%d")
strftime_Ymd(d) ==
    ZeroPad(StrOfInt(d.year), 4) \o <<"-">> \o ZeroPad(StrOfInt(d.month), 2) \o <<"-">>
        \o ZeroPad(StrOfInt(d.day), 2)

\* None.strftime raises AttributeError after the numbers are calculated; the
\* except clause turns it into the empty reading {}
create_full_reading(full_name, birth_date) ==
    LET numbers == calculate_all_numbers(full_name, birth_date)
    IN  IF birth_date = NoDate THEN [x \in {} |-> x]
        ELSE [name |-> full_name,
              birth_date |-> strftime_Ymd(birth_date),
              numbers |-> numbers,
              interpretations |->
                  [number_type \in DOMAIN numbers |->
                      [number |-> numbers[number_type],
                       meaning |-> get_number_meaning(numbers[number_type],
                                                      number_type)]]]

(***************************************************************************)
(* Inputs of the numerology operations.                                    *)
(***************************************************************************)
\* characters a full name is made of: vowels, consonants, both cases, a letter
\* outside ASCII, others
NameChars == {"A", "e", "R", "d", "y", "ß", "-"}

\* the names of one ASCII letter, of either case
LetterNames == {<<UpperLetters[k]>> : k \in 1..26} \cup {<<LowerLetters[k]>> : k \in 1..26}

Names == UNION {[1..n -> NameChars] : n \in 0..MaxNameLen} \cup LetterNames

\* what the name operations are called with: a name, or None
NameArgs == Names \cup {NoName}

Years == {1990, 2000}

IsLeap(y) == (y % 4 = 0 /\ y % 100 # 0) \/ y % 400 = 0

DaysIn(y, m) ==
    IF m = 2 THEN (IF IsLeap(y) THEN 29 ELSE 28)
    ELSE IF m \in {4, 6, 9, 11} THEN 30 ELSE 31

Dates == {[year |-> y, month |-> m, day |-> d] :
              y \in Years, m \in 1..12, d \in 1..31}

ValidDates == {d \in Dates : d.day <= DaysIn(d.year, d.month)}

\* the birth dates a whole profile is computed for
ProfileDates ==
    {NoDate,
     [year |-> 1990, month |-> 5, day |-> 15],
     [year |-> 1990, month |-> 9, day |-> 5],
     [year |-> 1990, month |-> 11, day |-> 29],
     [year |-> 2000, month |-> 2, day |-> 29],
     [year |-> 2000, month |-> 1, day |-> 1]}

\* no call is in progress: the services wait for the next request
Idle == call.op = "idle"

CallReduce ==
    /\ Idle
    /\ \E x \in 0..MaxNumber :
           /\ call' = [op |-> "reduce_to_single_digit", number |-> x]
           /\ ret' = reduce_to_single_digit(x)
           /\ UNCHANGED <<deck, shuffleCount, providerCalls>>
    /\ UNCHANGED restVars

CallLifePath ==
    /\ Idle
    /\ \E d \in ValidDates \cup {NoDate} :
           /\ call' = [op |-> "calculate_life_path_number", birth_date |-> d]
           /\ ret' = calculate_life_path_number(d)
           /\ UNCHANGED <<deck, shuffleCount, providerCalls>>
    /\ UNCHANGED restVars

CallBirthDay ==
    /\ Idle
    /\ \E d \in ValidDates \cup {NoDate} :
           /\ call' = [op |-> "calculate_birth_day_number", birth_date |-> d]
           /\ ret' = calculate_birth_day_number(d)
           /\ UNCHANGED <<deck, shuffleCount, providerCalls>>
    /\ UNCHANGED restVars

CallAttitude ==
    /\ Idle
    /\ \E d \in ValidDates \cup {NoDate} :
           /\ call' = [op |-> "calculate_attitude_number", birth_date |-> d]
           /\ ret' = calculate_attitude_number(d)
           /\ UNCHANGED <<deck, shuffleCount, providerCalls>>
    /\ UNCHANGED restVars

CallExpression ==
    /\ Idle
    /\ \E n \in NameArgs :
           /\ call' = [op |-> "calculate_expression_number", full_name |-> n]
           /\ ret' = calculate_expression_number(n)
           /\ UNCHANGED <<deck, shuffleCount, providerCalls>>
    /\ UNCHANGED restVars

CallSoulUrge ==
    /\ Idle
    /\ \E n \in NameArgs :
           /\ call' = [op |-> "calculate_soul_urge_number", full_name |-> n]
           /\ ret' = calculate_soul_urge_number(n)
           /\ UNCHANGED <<deck, shuffleCount, providerCalls>>
    /\ UNCHANGED restVars

CallPersonality ==
    /\ Idle
    /\ \E n \in NameArgs :
           /\ call' = [op |-> "calculate_personality_number", full_name |-> n]
           /\ ret' = calculate_personality_number(n)
           /\ UNCHANGED <<deck, shuffleCount, providerCalls>>
    /\ UNCHANGED restVars

CallAllNumbers ==
    /\ Idle
    /\ \E n \in NameArgs, d \in ProfileDates :
           /\ call' = [op |-> "calculate_all_numbers", full_name |-> n, birth_date |-> d]
           /\ ret' = calculate_all_numbers(n, d)
           /\ UNCHANGED <<deck, shuffleCount, providerCalls>>
    /\ UNCHANGED restVars

(***************************************************************************)
(* TarotService                                                            *)
(***************************************************************************)
\* the deck shuffles counted in shuffleCount stop at MaxShuffles
MaxShuffles == 2
\* the random source is one of the streams numbered by seeds 0..MaxSeed
MaxSeed == 2
\* the explicit draw sequences of a shuffle rearrange the first MaxMoved cards
MaxMoved == 4

TAROT_CARDS ==
    <<"The Fool", "The Magician", "The High Priestess", "The Empress", "The Emperor",
      "The Hierophant", "The Lovers", "The Chariot", "Strength", "The Hermit",
      "Wheel of Fortune", "Justice", "The Hanged Man", "Death", "Temperance",
      "The Devil", "The Tower", "The Star", "The Moon", "The Sun", "Judgement",
      "The World", "Ace of Wands", "Two of Wands", "Three of Wands", "Four of Wands",
      "Five of Wands", "Six of Wands", "Seven of Wands", "Eight of Wands",
      "Nine of Wands", "Ten of Wands", "Page of Wands", "Knight of Wands",
      "Queen of Wands", "King of Wands", "Ace of Cups", "Two of Cups", "Three of Cups",
      "Four of Cups", "Five of Cups", "Six of Cups", "Seven of Cups", "Eight of Cups",
      "Nine of Cups", "Ten of Cups", "Page of Cups", "Knight of Cups", "Queen of Cups",
      "King of Cups", "Ace of Swords", "Two of Swords", "Three of Swords",
      "Four of Swords", "Five of Swords", "Six of Swords", "Seven of Swords",
      "Eight of Swords", "Nine of Swords", "Ten of Swords", "Page of Swords",
      "Knight of Swords", "Queen of Swords", "King of Swords", "Ace of Pentacles",
      "Two of Pentacles", "Three of Pentacles", "Four of Pentacles",
      "Five of Pentacles", "Six of Pentacles", "Seven of Pentacles",
      "Eight of Pentacles", "Nine of Pentacles", "Ten of Pentacles",
      "Page of Pentacles", "Knight of Pentacles", "Queen of Pentacles",
      "King of Pentacles">>

spreads ==
    [single |->
        [name |-> "Single Card",
         positions |-> <<"Present Situation">>,
         card_count |-> 1],
     three_card |->
        [name |-> "Three Card Spread",
         positions |-> <<"Past", "Present", "Future">>,
         card_count |-> 3],
     relationship |->
        [name |-> "Relationship Spread",
         positions |-> <<"You", "Your Partner", "The Relationship">>,
         card_count |-> 3],
     career |->
        [name |-> "Career Spread",
         positions |-> <<"Current Situation", "Challenges", "Advice">>,
         card_count |-> 3],
     celtic_cross |->
        [name |-> "Celtic Cross",
         positions |-> <<"Present Situation", "Challenge/Cross",
                         "Distant Past/Foundation", "Recent Past",
                         "Possible Outcome", "Immediate Future", "Your Approach",
                         "External Influences", "Hopes and Fears", "Final Outcome">>,
         card_count |-> 10]]

\* The random module.  A stream is fixed by a seed <<a, b>>; RawRandom is the
\* number the stream gives to request k of a call (the shuffle's iteration i
\* is request i, the reversal of the i-th card is request Len(deck) + i).
\* randbelow(n) takes it modulo n, and random() takes it modulo 10, in tenths.
\* the raw values one operation takes from the generator: at most one per
\* deck position and one per drawn card
StreamLen == 2 * Len(TAROT_CARDS) + 1

RawRandom(seed, k) == (seed[1] + 1) * 7919 + seed[2] * 104729 + 7 * k * k + 3 * k

\* the stream of raw values of the generator started from a seed
SeedStream(seed) == [k \in 1..StreamLen |-> RawRandom(seed, k)]

\* The random source of an operation is a stream of raw values; the streams
\* of Seeds are those of the seeds <<0..MaxSeed, 0..MaxSeed>>.
Seeds == {SeedStream(s) : s \in (0..MaxSeed) \X (0..MaxSeed)}

\* The generator can draw any position at any step of a shuffle.  A draw
\* sequence v of length n draws v[i] in 1..i at the steps i <= n and the
\* position i itself at the steps above, which leaves those cards in place.
DrawVectors(n) == {v \in [1..n -> 1..n] : \A i \in 1..n : v[i] <= i}

DrawStream(v, n) == [k \in 1..StreamLen |-> IF k <= n THEN v[k] - 1 ELSE k - 1]

\* the random sources shuffle_deck is followed for
ShuffleSources == Seeds \cup {DrawStream(v, MaxMoved) : v \in DrawVectors(MaxMoved)}

\* the k-th raw value of the stream, reduced to 0..n-1
randbelow(seed, k, n) == seed[k] % n

\* random.random(), in tenths: 0..9 stands for [0.0, 1.0)
random_tenths(seed, k) == seed[k] % 10

\* the reversal probability 0.3, in tenths
ReversedTenths == 3

Swap(x, i, j) == [x EXCEPT ![i] = x[j], ![j] = x[i]]

\* random.shuffle(x): for i in reversed(range(1, len(x))):
\*                        j = randbelow(i + 1); x[i], x[j] = x[j], x[i]
\* (positions are 1-based here).  shuffle_steps performs the iterations
\* i = hi, hi - 1, ..., lo in that order: the upper half is computed first
\* (the test on its length makes the evaluation happen there), then the
\* lower half runs on its result.
RECURSIVE shuffle_steps(_, _, _, _)
shuffle_steps(x, hi, lo, seed) ==
    IF hi < lo THEN x
    ELSE IF hi = lo THEN Swap(x, hi, 1 + randbelow(seed, hi, hi))
    ELSE LET mid == (hi + lo) \div 2
             upper == shuffle_steps(x, hi, mid + 1, seed)
         IN  IF Len(upper) = Len(x) THEN shuffle_steps(upper, mid, lo, seed) ELSE x

random_shuffle(x, seed) == shuffle_steps(x, Len(x), 2, seed)

\* s[:count]
SliceTo(s, count) ==
    IF count >= 0
    THEN SubSeq(s, 1, IF count < Len(s) THEN count ELSE Len(s))
    ELSE SubSeq(s, 1, IF Len(s) + count > 0 THEN Len(s) + count ELSE 0)

\* Every operation of the service gives its return value (ret), the deck it
\* leaves in self.deck and the number of shuffles it performed.

\* faulty variant: the shuffle draws with replacement (random.choices)
shuffle_with_replacement(d, seed) ==
    [ret |-> [i \in 1..Len(d) |-> d[1 + randbelow(seed, i, Len(d))]],
     deck |-> d,
     shuffles |-> 1]

\* faulty variant: self.deck itself is shuffled (the copy is missing)
shuffle_deck_in_place(d, seed) ==
    [ret |-> random_shuffle(d, seed), deck |-> random_shuffle(d, seed), shuffles |-> 1]

shuffle_deck(d, seed) ==
    [ret |-> random_shuffle(d, seed), deck |-> d, shuffles |-> 1]

Card(card_name, i, is_reversed) ==
    [name |-> card_name,
     position_index |-> i - 1,
     is_reversed |-> is_reversed,
     display_name |-> IF is_reversed THEN card_name \o " (Reversed)" ELSE card_name]

draw_cards(d, count, seed) ==
    LET shuffled == shuffle_deck(d, seed)
        drawn_cards == SliceTo(shuffled.ret, count)
    IN  [ret |-> [i \in 1..Len(drawn_cards) |->
                     Card(drawn_cards[i], i,
                          random_tenths(seed, Len(d) + i) < ReversedTenths)],
         deck |-> shuffled.deck,
         shuffles |-> shuffled.shuffles]

\* faulty variant: the labels are assigned one position late
PositionLabelShifted(spread_config, i) ==
    IF i + 1 <= Len(spread_config.positions)
    THEN spread_config.positions[i + 1]
    ELSE "Position " \o ToString(i + 1)

\* card["position"] of the i-th card (1-based)
PositionLabel(spread_config, i) ==
    IF i <= Len(spread_config.positions)
    THEN spread_config.positions[i]
    ELSE "Position " \o ToString(i)

\* the ValueError of an unknown spread type, logged and raised again
UnknownSpread(spread_type) == [error |-> "ValueError", spread_type |-> spread_type]

\* faulty variant: the cards are drawn before the spread type is validated
create_reading_draw_first(d, spread_type, question, seed) ==
    LET known == spread_type \in DOMAIN spreads
        drawn == draw_cards(d, IF known THEN spreads[spread_type].card_count ELSE 1,
                            seed)
    IN  IF ~known
        THEN [ret |-> UnknownSpread(spread_type), deck |-> drawn.deck,
              shuffles |-> drawn.shuffles]
        ELSE [ret |-> [spread_type |-> spread_type,
                       spread_name |-> spreads[spread_type].name,
                       question |-> question,
                       cards |-> [i \in 1..Len(drawn.ret) |->
                                     [position |-> PositionLabel(spreads[spread_type], i)]
                                     @@ drawn.ret[i]],
                       positions |-> spreads[spread_type].positions,
                       card_count |-> Len(drawn.ret)],
              deck |-> drawn.deck,
              shuffles |-> drawn.shuffles]

create_reading(d, spread_type, question, seed) ==
    IF spread_type \notin DOMAIN spreads
    THEN [ret |-> UnknownSpread(spread_type), deck |-> d, shuffles |-> 0]
    ELSE LET spread_config == spreads[spread_type]
             drawn == draw_cards(d, spread_config.card_count, seed)
         IN  [ret |-> [spread_type |-> spread_type,
                       spread_name |-> spread_config.name,
                       question |-> question,
                       cards |-> [i \in 1..Len(drawn.ret) |->
                                     [position |-> PositionLabel(spread_config, i)]
                                     @@ drawn.ret[i]],
                       positions |-> spread_config.positions,
                       card_count |-> Len(drawn.ret)],
              deck |-> drawn.deck,
              shuffles |-> drawn.shuffles]

\* The texts of get_card_meaning, keyed by the card name.
card_meanings ==
    ("The Fool" :> [upright |-> "New beginnings, innocence, spontaneity, free spirit",
                       reversed |-> "Recklessness, taken advantage of, inconsideration"])
    @@ ("The Magician" :> [upright |-> "Manifestation, resourcefulness, power, inspired action",
                           reversed |-> "Manipulation, poor planning, untapped talents"])
    @@ ("The High Priestess" :> [upright |-> "Intuition, sacred knowledge, divine feminine, subconscious mind",
                                 reversed |-> "Secrets, disconnected from intuition, withdrawal"])
    @@ ("The Empress" :> [upright |-> "Femininity, beauty, nature, nurturing, abundance",
                          reversed |-> "Creative block, dependence on others"])
    @@ ("The Emperor" :> [upright |-> "Authority, establishment, structure, father figure",
                          reversed |-> "Domination, excessive control, lack of discipline"])
    @@ ("The Hierophant" :> [upright |-> "Spiritual wisdom, religious beliefs, conformity, tradition",
                             reversed |-> "Personal beliefs, freedom, challenging the status quo"])
    @@ ("The Lovers" :> [upright |-> "Love, harmony, relationships, values alignment",
                         reversed |-> "Self-love, disharmony, imbalance, misalignment"])
    @@ ("The Chariot" :> [upright |-> "Control, willpower, success, determination",
                          reversed |-> "Self-discipline, opposition, lack of direction"])
    @@ ("Strength" :> [upright |-> "Strength, courage, persuasion, influence, compassion",
                       reversed |-> "Self doubt, low energy, raw emotion"])
    @@ ("The Hermit" :> [upright |-> "Soul searching, introspection, inner guidance",
                         reversed |-> "Isolation, loneliness, withdrawal"])
    @@ ("Wheel of Fortune" :> [upright |-> "Good luck, karma, life cycles, destiny, turning point",
                               reversed |-> "Bad luck, lack of control, clinging to control"])
    @@ ("Justice" :> [upright |-> "Justice, fairness, truth, cause and effect, law",
                      reversed |-> "Unfairness, lack of accountability, dishonesty"])
    @@ ("The Hanged Man" :> [upright |-> "Suspension, restriction, letting go, sacrifice",
                             reversed |-> "Martyrdom, indecision, delay"])
    @@ ("Death" :> [upright |-> "Endings, beginnings, change, transformation, transition",
                    reversed |-> "Resistance to change, personal transformation, inner purging"])
    @@ ("Temperance" :> [upright |-> "Balance, moderation, patience, purpose",
                         reversed |-> "Imbalance, excess, self-healing, re-alignment"])
    @@ ("The Devil" :> [upright |-> "Bondage, addiction, sexuality, materialism",
                        reversed |-> "Releasing limiting beliefs, exploring dark thoughts, detachment"])
    @@ ("The Tower" :> [upright |-> "Sudden change, upheaval, chaos, revelation, awakening",
                        reversed |-> "Personal transformation, fear of change, averting disaster"])
    @@ ("The Star" :> [upright |-> "Hope, faith, purpose, renewal, spirituality",
                       reversed |-> "Lack of faith, despair, self-trust, disconnection"])
    @@ ("The Moon" :> [upright |-> "Illusion, fear, anxiety, subconscious, intuition",
                       reversed |-> "Release of fear, repressed emotion, inner confusion"])
    @@ ("The Sun" :> [upright |-> "Positivity, fun, warmth, success, vitality",
                      reversed |-> "Inner child, feeling down, overly optimistic"])
    @@ ("Judgement" :> [upright |-> "Judgement, rebirth, inner calling, absolution",
                        reversed |-> "Self-doubt, inner critic, ignoring the call"])
    @@ ("The World" :> [upright |-> "Completion, integration, accomplishment, travel",
                        reversed |-> "Seeking personal closure, short-cut to success"])

\* default meaning for cards not in dictionary
default_meaning ==
    [upright |-> "Positive energy, growth, opportunity",
     reversed |-> "Blocked energy, internal challenges, reflection needed"]

\* faulty variant: the table is not consulted, every card gets the default pair
get_card_meaning_default_only(card_name, is_reversed) ==
    [card |-> card_name,
     meaning |-> IF is_reversed THEN default_meaning.reversed ELSE default_meaning.upright,
     orientation |-> IF is_reversed THEN "reversed" ELSE "upright"]

\* faulty variant: the two orientations are exchanged
get_card_meaning_swapped(card_name, is_reversed) ==
    LET meaning == IF card_name \in DOMAIN card_meanings THEN card_meanings[card_name]
                   ELSE default_meaning
    IN  [card |-> card_name,
         meaning |-> IF is_reversed THEN meaning.upright ELSE meaning.reversed,
         orientation |-> IF is_reversed THEN "reversed" ELSE "upright"]

\* card_meanings.get(card_name, default_meaning), then the text of the flag
get_card_meaning(card_name, is_reversed) ==
    LET meaning == IF card_name \in DOMAIN card_meanings THEN card_meanings[card_name]
                   ELSE default_meaning
    IN  [card |-> card_name,
         meaning |-> IF is_reversed THEN meaning.reversed ELSE meaning.upright,
         orientation |-> IF is_reversed THEN "reversed" ELSE "upright"]

(***************************************************************************)
(* Inputs of the tarot operations.                                         *)
(***************************************************************************)
\* the counts draw_cards is called with: every 0..78, one below, one above
DrawCounts == (0 - 1)..(Len(TAROT_CARDS) + 1)

\* the spread types create_reading is called with
SpreadTypes == DOMAIN spreads \cup {"unknown_spread", "", "Single"}

\* the questions create_reading is called with; "<None>" stands for None
Questions == {"<None>", "", "will I find love?"}

\* the names get_card_meaning is called with: every deck card, and names that
\* are no cards; "<None>" stands for None
CardNames ==
    {TAROT_CARDS[i] : i \in 1..Len(TAROT_CARDS)}
    \cup {"<None>", "", "the fool", "The Fool (Reversed)", "Ace of Spades"}

CallShuffleDeck ==
    /\ Idle
    /\ shuffleCount < MaxShuffles
    /\ \E seed \in ShuffleSources :
           LET r == shuffle_deck(deck, seed)
           IN  /\ call' = [op |-> "shuffle_deck"]
               /\ ret' = r.ret
               /\ deck' = r.deck
               /\ shuffleCount' = shuffleCount + r.shuffles
               /\ UNCHANGED providerCalls
    /\ UNCHANGED restVars

CallDrawCards ==
    /\ Idle
    /\ shuffleCount < MaxShuffles
    /\ \E count \in DrawCounts, seed \in Seeds :
           LET r == draw_cards(deck, count, seed)
           IN  /\ call' = [op |-> "draw_cards", count |-> count]
               /\ ret' = r.ret
               /\ deck' = r.deck
               /\ shuffleCount' = shuffleCount + r.shuffles
               /\ UNCHANGED providerCalls
    /\ UNCHANGED restVars

CallCreateReading ==
    /\ Idle
    /\ shuffleCount < MaxShuffles
    /\ \E spread_type \in SpreadTypes, question \in Questions,
          seed \in Seeds :
           LET r == create_reading(deck, spread_type, question, seed)
           IN  /\ call' = [op |-> "create_reading", spread_type |-> spread_type,
                           question |-> question]
               /\ ret' = r.ret
               /\ deck' = r.deck
               /\ shuffleCount' = shuffleCount + r.shuffles
               /\ UNCHANGED providerCalls
    /\ UNCHANGED restVars

CallGetCardMeaning ==
    /\ Idle
    /\ \E card_name \in CardNames, is_reversed \in BOOLEAN :
           /\ call' = [op |-> "get_card_meaning", card_name |-> card_name,
                       is_reversed |-> is_reversed]
           /\ ret' = get_card_meaning(card_name, is_reversed)
           /\ UNCHANGED <<deck, shuffleCount, providerCalls>>
    /\ UNCHANGED restVars

(***************************************************************************)
(* AstrologyService.  Angles are fixed-point numbers: Unit steps make one   *)
(* degree, so Deg(30) is 30 degrees.                                       *)
(***************************************************************************)
\* steps per degree of the angles of the model
Unit == 2

Deg(n) == n * Unit

FullCircle == Deg(360)

\* the longitudes the ephemeris provider returns: 0 <= L < 360
Longitudes == 0..(FullCircle - 1)

Abs(x) == IF x < 0 THEN 0 - x ELSE x

PLANETS == <<"Sun", "Moon", "Mercury", "Venus", "Mars", "Jupiter", "Saturn", "Uranus",
             "Neptune", "Pluto">>

SIGNS == <<"Aries", "Taurus", "Gemini", "Cancer", "Leo", "Virgo", "Libra", "Scorpio",
           "Sagittarius", "Capricorn", "Aquarius", "Pisces">>

HOUSES == <<"1st House", "2nd House", "3rd House", "4th House", "5th House",
            "6th House", "7th House", "8th House", "9th House", "10th House",
            "11th House", "12th House">>

\* an instant is [year, month, day, hour, aware, offset]: offset is the UTC
\* offset in hours of an aware datetime; NoInstant stands for None
NoInstant == [year |-> 0, month |-> 0, day |-> 0, hour |-> 0, aware |-> FALSE,
              offset |-> 0]

\* dt.astimezone(timezone.utc) of an aware datetime, dt.replace(tzinfo=utc) of
\* a naive one
ToUtc(dt) ==
    IF ~dt.aware THEN dt
    ELSE LET h == dt.hour - dt.offset
         IN  IF h < 0
             THEN IF dt.day > 1
                  THEN [dt EXCEPT !.hour = h + 24, !.day = dt.day - 1, !.offset = 0]
                  ELSE IF dt.month > 1
                  THEN [dt EXCEPT !.hour = h + 24, !.month = dt.month - 1,
                                  !.day = DaysIn(dt.year, dt.month - 1), !.offset = 0]
                  ELSE [dt EXCEPT !.hour = h + 24, !.year = dt.year - 1, !.month = 12,
                                  !.day = 31, !.offset = 0]
             ELSE IF h >= 24
             THEN IF dt.day < DaysIn(dt.year, dt.month)
                  THEN [dt EXCEPT !.hour = h - 24, !.day = dt.day + 1, !.offset = 0]
                  ELSE IF dt.month < 12
                  THEN [dt EXCEPT !.hour = h - 24, !.month = dt.month + 1, !.day = 1,
                                  !.offset = 0]
                  ELSE [dt EXCEPT !.hour = h - 24, !.year = dt.year + 1, !.month = 1,
                                  !.day = 1, !.offset = 0]
             ELSE [dt EXCEPT !.hour = h, !.offset = 0]

\* swe.julday(year, month, day, hour) of the Gregorian calendar, in hours
\* (24 * Julian Day): the day number at noon, minus 12 hours, plus the hour
swe_julday(year, month, day, hour) ==
    LET a == (14 - month) \div 12
        y == year + 4800 - a
        m == month + 12 * a - 3
        jdn == day + ((153 * m + 2) \div 5) + 365 * y + (y \div 4) - (y \div 100)
               + (y \div 400) - 32045
    IN  24 * jdn - 12 + hour

\* faulty variant: the fields of an aware datetime are used without astimezone
julian_day_local_fields(dt, latitude, longitude) ==
    IF dt = NoInstant THEN [error |-> "AttributeError"]
    ELSE [jd |-> swe_julday(dt.year, dt.month, dt.day, dt.hour)]

\* dt.tzinfo of None raises AttributeError, which is logged and raised again
calculate_julian_day(dt, latitude, longitude) ==
    IF dt = NoInstant THEN [error |-> "AttributeError"]
    ELSE LET dt_utc == ToUtc(dt)
         IN  [jd |-> swe_julday(dt_utc.year, dt_utc.month, dt_utc.day, dt_utc.hour)]

\* faulty variant: the sign index is rounded to the nearest sign
SignIndexRounded(L) == ((L + Deg(15)) \div Deg(30)) % 12

\* int(longitude_deg // 30)
SignIndex(L) == L \div Deg(30)

\* longitude_deg % 30
DegreeInSign(L) == L % Deg(30)

\* f"{x:.1f}": x in tenths of a degree, rounded half to even
FormatTenths(x) ==
    LET q == (10 * x) \div Unit
        r == (10 * x) % Unit
    IN  IF 2 * r > Unit \/ (2 * r = Unit /\ q % 2 = 1) THEN q + 1 ELSE q

\* the entry stored for a body or a cusp at longitude L, without its key
SignAndDegree(L) ==
    [sign |-> SIGNS[SignIndex(L) + 1],
     degree |-> DegreeInSign(L),
     formatted |-> <<FormatTenths(DegreeInSign(L)), SIGNS[SignIndex(L) + 1]>>]

\* SIGNS[sign_index] raises IndexError for a longitude of 360 or more
SignKnown(L) == SignIndex(L) < Len(SIGNS)

\* faulty variant: the first failing lookup ends the loop (break, not continue)
RECURSIVE PlanetEntriesBreak(_, _)
PlanetEntriesBreak(eph, i) ==
    IF i > Len(PLANETS) THEN <<>>
    ELSE IF eph[i].ok /\ SignKnown(eph[i].longitude)
         THEN <<[name |-> PLANETS[i], longitude |-> eph[i].longitude]
                @@ SignAndDegree(eph[i].longitude)>>
              \o PlanetEntriesBreak(eph, i + 1)
         ELSE <<>>

\* The planets map, in insertion order: one entry per body whose lookup
\* succeeded.  eph[i] is the provider's answer for PLANETS[i]: [ok |-> FALSE]
\* when swe.calc_ut raises, [ok |-> TRUE, longitude |-> L] otherwise.
RECURSIVE PlanetEntries(_, _)
PlanetEntries(eph, i) ==
    IF i > Len(PLANETS) THEN <<>>
    ELSE (IF eph[i].ok /\ SignKnown(eph[i].longitude)
          THEN <<[name |-> PLANETS[i], longitude |-> eph[i].longitude]
                 @@ SignAndDegree(eph[i].longitude)>>
          ELSE <<>>)
         \o PlanetEntries(eph, i + 1)

\* faulty variant: the guard of the cusp loop is i < 11, the twelfth house is lost
calculate_houses_eleven(hs) ==
    IF ~hs.ok THEN <<>>
    ELSE [i \in 1..11 |->
             [name |-> HOUSES[i], cusp |-> hs.cusps[i]] @@ SignAndDegree(hs.cusps[i])]
         \o <<[name |-> "Ascendant", cusp |-> hs.ascmc[1]] @@ SignAndDegree(hs.ascmc[1]),
              [name |-> "Midheaven", cusp |-> hs.ascmc[2]] @@ SignAndDegree(hs.ascmc[2])>>

\* hs is the provider's answer to swe.houses: [ok |-> FALSE] when it raises,
\* [ok |-> TRUE, cusps |-> 12 longitudes, ascmc |-> <<ascendant, midheaven>>]
calculate_houses(hs) ==
    IF ~hs.ok THEN <<>>
    ELSE IF \E i \in 1..Len(hs.cusps) : i <= 12 /\ ~SignKnown(hs.cusps[i]) THEN <<>>
    ELSE IF ~SignKnown(hs.ascmc[1]) \/ ~SignKnown(hs.ascmc[2]) THEN <<>>
    ELSE [i \in 1..(IF Len(hs.cusps) < 12 THEN Len(hs.cusps) ELSE 12) |->
             [name |-> HOUSES[i], cusp |-> hs.cusps[i]] @@ SignAndDegree(hs.cusps[i])]
         \o <<[name |-> "Ascendant", cusp |-> hs.ascmc[1]] @@ SignAndDegree(hs.ascmc[1]),
              [name |-> "Midheaven", cusp |-> hs.ascmc[2]] @@ SignAndDegree(hs.ascmc[2])>>

\* faulty variant: the orb of the Trine is 25 degrees and reaches into the Square
aspect_orbs_wide_trine ==
    <<[name |-> "Conjunction", angle |-> Deg(0), orb |-> Deg(8)],
      [name |-> "Opposition", angle |-> Deg(180), orb |-> Deg(8)],
      [name |-> "Trine", angle |-> Deg(120), orb |-> Deg(25)],
      [name |-> "Square", angle |-> Deg(90), orb |-> Deg(8)],
      [name |-> "Sextile", angle |-> Deg(60), orb |-> Deg(6)]>>

aspect_orbs ==
    <<[name |-> "Conjunction", angle |-> Deg(0), orb |-> Deg(8)],
      [name |-> "Opposition", angle |-> Deg(180), orb |-> Deg(8)],
      [name |-> "Trine", angle |-> Deg(120), orb |-> Deg(8)],
      [name |-> "Square", angle |-> Deg(90), orb |-> Deg(8)],
      [name |-> "Sextile", angle |-> Deg(60), orb |-> Deg(6)]>>

\* faulty variant: the difference is taken without abs()
AngularDiffSigned(lon1, lon2) ==
    IF lon1 - lon2 > Deg(180) THEN Deg(360) - (lon1 - lon2) ELSE lon1 - lon2

\* diff = abs(lon1 - lon2); if diff > 180: diff = 360 - diff
AngularDiff(lon1, lon2) ==
    IF Abs(lon1 - lon2) > Deg(180) THEN Deg(360) - Abs(lon1 - lon2)
    ELSE Abs(lon1 - lon2)

\* faulty variant: the orb test is strict (< instead of <=)
RECURSIVE FirstMatchStrict(_, _)
FirstMatchStrict(diff, k) ==
    IF k > Len(aspect_orbs) THEN 0
    ELSE IF Abs(diff - aspect_orbs[k].angle) < aspect_orbs[k].orb THEN k
    ELSE FirstMatchStrict(diff, k + 1)

\* the loop over aspect_orbs with its break: the index of the first definition
\* from the k-th on whose orb contains diff, 0 when there is none
RECURSIVE FirstMatch(_, _)
FirstMatch(diff, k) ==
    IF k > Len(aspect_orbs) THEN 0
    ELSE IF Abs(diff - aspect_orbs[k].angle) <= aspect_orbs[k].orb THEN k
    ELSE FirstMatch(diff, k + 1)

\* the aspects.append of one pair: no record or one record
PairAspect(p1, p2) ==
    LET diff == AngularDiff(p1.longitude, p2.longitude)
        k == FirstMatch(diff, 1)
    IN  IF k = 0 THEN <<>>
        ELSE <<[planet1 |-> p1.name,
                planet2 |-> p2.name,
                aspect |-> aspect_orbs[k].name,
                angle |-> diff,
                orb |-> Abs(diff - aspect_orbs[k].angle),
                exact_angle |-> aspect_orbs[k].angle]>>

\* faulty variant: every body is paired with every other body, earlier or later
RECURSIVE AspectsFromBothWays(_, _, _)
AspectsFromBothWays(planets, i, j) ==
    IF i > Len(planets) THEN <<>>
    ELSE IF j > Len(planets) THEN AspectsFromBothWays(planets, i + 1, 1)
    ELSE (IF i = j THEN <<>> ELSE PairAspect(planets[i], planets[j]))
         \o AspectsFromBothWays(planets, i, j + 1)

\* for i, planet1 in enumerate(planet_names): for planet2 in planet_names[i+1:]
RECURSIVE AspectsFrom(_, _, _)
AspectsFrom(planets, i, j) ==
    IF i > Len(planets) THEN <<>>
    ELSE IF j > Len(planets) THEN AspectsFrom(planets, i + 1, i + 2)
    ELSE PairAspect(planets[i], planets[j]) \o AspectsFrom(planets, i, j + 1)

calculate_aspects(planets) == AspectsFrom(planets, 1, 2)

\* birth_date.isoformat(): the fields of the datetime, the offset of an aware one
IsoFormat(dt) ==
    IF dt.aware THEN <<dt.year, dt.month, dt.day, dt.hour, dt.offset>>
    ELSE <<dt.year, dt.month, dt.day, dt.hour>>

\* faulty variant: a failed Julian Day is replaced by 0 and the lookups go on,
\* so that a missing date fails only at birth_date.isoformat()
natal_chart_default_jd(birth_date, latitude, longitude, eph, hs) ==
    LET j == calculate_julian_day(birth_date, latitude, longitude)
        planets == PlanetEntries(eph, 1)
    IN  IF birth_date = NoInstant
        THEN [ret |-> [error |-> "AttributeError"], calls |-> Len(PLANETS) + 1]
        ELSE [ret |-> [planets |-> planets,
                       houses |-> calculate_houses(hs),
                       aspects |-> calculate_aspects(planets),
                       birth_info |-> [date |-> IsoFormat(birth_date),
                                       latitude |-> latitude,
                                       longitude |-> longitude,
                                       julian_day |-> j.jd]],
              calls |-> Len(PLANETS) + 1]

\* The return value (ret) and the number of provider calls (calls) of
\* calculate_natal_chart, given the provider's answers eph and hs.
calculate_natal_chart(birth_date, latitude, longitude, eph, hs) ==
    LET j == calculate_julian_day(birth_date, latitude, longitude)
    IN  IF "error" \in DOMAIN j
        THEN [ret |-> j, calls |-> 0]
        ELSE LET planets == PlanetEntries(eph, 1)
             IN  [ret |-> [planets |-> planets,
                           houses |-> calculate_houses(hs),
                           aspects |-> calculate_aspects(planets),
                           birth_info |-> [date |-> IsoFormat(birth_date),
                                           latitude |-> latitude,
                                           longitude |-> longitude,
                                           julian_day |-> j.jd]],
                  calls |-> Len(PLANETS) + 1]

\* one record of the transits list
Transit(transit, natal, aspect, orb) ==
    [transit_planet |-> transit.name, natal_planet |-> natal.name, aspect |-> aspect,
     orb |-> orb]

\* faulty variant: a body is not compared with its own natal position
TransitAspectSkipSelf(transit, natal) ==
    LET diff == AngularDiff(transit.longitude, natal.longitude)
    IN  IF transit.name = natal.name THEN <<>>
        ELSE IF diff <= Deg(2) THEN <<Transit(transit, natal, "Conjunction", diff)>>
        ELSE IF Abs(diff - Deg(180)) <= Deg(2)
        THEN <<Transit(transit, natal, "Opposition", Abs(diff - Deg(180)))>>
        ELSE IF Abs(diff - Deg(90)) <= Deg(2)
        THEN <<Transit(transit, natal, "Square", Abs(diff - Deg(90)))>>
        ELSE IF Abs(diff - Deg(120)) <= Deg(2)
        THEN <<Transit(transit, natal, "Trine", Abs(diff - Deg(120)))>>
        ELSE <<>>

\* the if/elif chain of one (transit body, natal body) pair: no record or one
TransitAspect(transit, natal) ==
    LET diff == AngularDiff(transit.longitude, natal.longitude)
    IN  IF diff <= Deg(2) THEN <<Transit(transit, natal, "Conjunction", diff)>>
        ELSE IF Abs(diff - Deg(180)) <= Deg(2)
        THEN <<Transit(transit, natal, "Opposition", Abs(diff - Deg(180)))>>
        ELSE IF Abs(diff - Deg(90)) <= Deg(2)
        THEN <<Transit(transit, natal, "Square", Abs(diff - Deg(90)))>>
        ELSE IF Abs(diff - Deg(120)) <= Deg(2)
        THEN <<Transit(transit, natal, "Trine", Abs(diff - Deg(120)))>>
        ELSE <<>>

\* for natal_planet, natal_data in natal_planets.items(), from the j-th on
RECURSIVE TransitsOfBody(_, _, _)
TransitsOfBody(transit, natal_planets, j) ==
    IF j > Len(natal_planets) THEN <<>>
    ELSE TransitAspect(transit, natal_planets[j])
         \o TransitsOfBody(transit, natal_planets, j + 1)

\* for transit_planet, transit_data in current_planets.items(), from the i-th on
RECURSIVE TransitsFrom(_, _, _)
TransitsFrom(current_planets, natal_planets, i) ==
    IF i > Len(current_planets) THEN <<>>
    ELSE TransitsOfBody(current_planets[i], natal_planets, 1)
         \o TransitsFrom(current_planets, natal_planets, i + 1)

\* The return value and the provider calls of get_current_transits: now is
\* datetime.now(timezone.utc), an aware instant whose Julian Day never fails;
\* natal_planets is the map of the natal bodies in insertion order.
get_current_transits(natal_planets, now, eph) ==
    LET j == calculate_julian_day(now, 0, 0)
        current_planets == PlanetEntries(eph, 1)
    IN  IF "error" \in DOMAIN j
        THEN [ret |-> <<>>, calls |-> 0]
        ELSE [ret |-> [current_planets |-> current_planets,
                       transits |-> TransitsFrom(current_planets, natal_planets, 1),
                       date |-> IsoFormat(now)],
              calls |-> Len(PLANETS)]

\* planets[planet_name] = pos[0]: the raw longitude of every body whose lookup
\* succeeded, in insertion order, without a sign lookup
RECURSIVE DailyPositions(_, _)
DailyPositions(eph, i) ==
    IF i > Len(PLANETS) THEN <<>>
    ELSE (IF eph[i].ok THEN <<[name |-> PLANETS[i], longitude |-> eph[i].longitude]>>
          ELSE <<>>)
         \o DailyPositions(eph, i + 1)

major_aspects == <<Deg(0), Deg(60), Deg(90), Deg(120), Deg(180)>>

aspect_names ==
    (Deg(0) :> "Conjunction") @@ (Deg(60) :> "Sextile") @@ (Deg(90) :> "Square")
        @@ (Deg(120) :> "Trine") @@ (Deg(180) :> "Opposition")

\* faulty variant: the orb of the daily aspects is 2 degrees, as for transits
RECURSIVE DailyMatchOrbTwo(_, _)
DailyMatchOrbTwo(diff, k) ==
    IF k > Len(major_aspects) THEN 0
    ELSE IF Abs(diff - major_aspects[k]) <= Deg(2) THEN k
    ELSE DailyMatchOrbTwo(diff, k + 1)

\* the loop over major_aspects with its break: the index of the first angle
\* from the k-th on that diff is within 1 degree of, 0 when there is none
RECURSIVE DailyMatch(_, _)
DailyMatch(diff, k) ==
    IF k > Len(major_aspects) THEN 0
    ELSE IF Abs(diff - major_aspects[k]) <= Deg(1) THEN k
    ELSE DailyMatch(diff, k + 1)

\* the aspects.append of one pair: no record or one record
DailyPair(p1, p2) ==
    LET diff == AngularDiff(p1.longitude, p2.longitude)
        k == DailyMatch(diff, 1)
    IN  IF k = 0 THEN <<>>
        ELSE <<[planet1 |-> p1.name,
                planet2 |-> p2.name,
                aspect |-> aspect_names[major_aspects[k]],
                orb |-> Abs(diff - major_aspects[k])]>>

\* for i, planet1 in enumerate(planet_names): for planet2 in planet_names[i+1:]
RECURSIVE DailyAspectsFrom(_, _, _)
DailyAspectsFrom(planets, i, j) ==
    IF i > Len(planets) THEN <<>>
    ELSE IF j > Len(planets) THEN DailyAspectsFrom(planets, i + 1, i + 2)
    ELSE DailyPair(planets[i], planets[j]) \o DailyAspectsFrom(planets, i, j + 1)

\* The return value and the provider calls of get_daily_aspects: a failed
\* Julian Day is caught by the outer except clause and gives the empty list.
get_daily_aspects(date, eph) ==
    LET j == calculate_julian_day(date, 0, 0)
    IN  IF "error" \in DOMAIN j
        THEN [ret |-> <<>>, calls |-> 0]
        ELSE [ret |-> DailyAspectsFrom(DailyPositions(eph, 1), 1, 2),
              calls |-> Len(PLANETS)]

(***************************************************************************)
(* Inputs of the chart operations and answers of the ephemeris provider.   *)
(***************************************************************************)
\* the days and hours of the instants: the ends of a year, a leap day and
\* the day after it, an ordinary day; the ends of a day and an afternoon
InstantDays == {<<1990, 1, 1>>, <<1990, 5, 15>>, <<1990, 12, 31>>, <<2000, 2, 29>>,
                <<2000, 3, 1>>}

InstantHours == {0, 1, 14, 22, 23}

\* the UTC offsets of the aware instants, in hours
UtcOffsets == {0 - 5, 0, 3}

\* None, naive datetimes and aware datetimes
BirthInstants ==
    {NoInstant}
    \cup {[year |-> d[1], month |-> d[2], day |-> d[3], hour |-> h, aware |-> FALSE,
           offset |-> 0] : d \in InstantDays, h \in InstantHours}
    \cup {[year |-> d[1], month |-> d[2], day |-> d[3], hour |-> h, aware |-> TRUE,
           offset |-> o] : d \in InstantDays, h \in InstantHours, o \in UtcOffsets}

\* the birth instants a whole chart is computed for
ChartInstants ==
    {NoInstant,
     [year |-> 1990, month |-> 5, day |-> 15, hour |-> 14, aware |-> FALSE, offset |-> 0],
     [year |-> 2000, month |-> 3, day |-> 1, hour |-> 1, aware |-> TRUE, offset |-> 3]}

\* the bodies whose lookup fails in a chart request
FailSets == {{}, {"Moon"}, {"Sun", "Pluto"}}

\* The provider answers of a chart request put the first body at a base
\* longitude and each next body one step further.  With steps of at least 36
\* degrees and the bases below, the ten bodies pass through every longitude.
ChartSteps == {Deg(36), Deg(44) + 1}

ChartBases == 0..Deg(36)

\* every set of bodies whose lookup can fail
AllFailSets == SUBSET {PLANETS[i] : i \in 1..Len(PLANETS)}

\* the base longitude of the requests that go through every failure set
FailBases == {Deg(5)}

\* The chart requests <<birth_date, base, step, failed, houses_ok>>: every base
\* and step with a few failure sets, and every failure set with a few bases.
ChartRequests ==
    (ChartInstants \X ChartBases \X ChartSteps \X FailSets \X BOOLEAN)
    \cup ((ChartInstants \ {NoInstant}) \X FailBases \X ChartSteps \X AllFailSets
          \X {TRUE})

\* swe.calc_ut: body i is at base + (i - 1) * step, or the lookup fails
EphAnswer(base, step, failed) ==
    [i \in 1..Len(PLANETS) |->
        IF PLANETS[i] \in failed THEN [ok |-> FALSE]
        ELSE [ok |-> TRUE, longitude |-> (base + (i - 1) * step) % FullCircle]]

\* swe.houses: twelve cusps of unequal width from the ascendant on, or a failure
HouseAnswer(asc, ok) ==
    IF ~ok THEN [ok |-> FALSE]
    ELSE [ok |-> TRUE,
          cusps |-> [i \in 1..12 |->
                        (asc + Deg(30) * (i - 1) + ((7 * i * i) % Deg(9))) % FullCircle],
          ascmc |-> <<asc, (asc + Deg(270) + 3) % FullCircle>>]

\* the first body's longitudes calculate_aspects is called with
AspectBases == {0, Deg(10), Deg(200), FullCircle - 1}

TwoBodies(lon1, lon2) ==
    <<[name |-> "Sun", longitude |-> lon1] @@ SignAndDegree(lon1),
      [name |-> "Moon", longitude |-> lon2] @@ SignAndDegree(lon2)>>

\* the longitudes of the maps of three bodies: equal and opposite bodies, the
\* two sides of 0 degrees, separations at the edge of an orb
MapLongitudes == {0, Deg(8), Deg(68) + 1, Deg(98), Deg(188), FullCircle - 1}

\* the maps of three bodies calculate_aspects is called with: the bodies of
\* lons in the insertion order q
ThreeBodies(lons, q) ==
    [i \in 1..3 |->
        [name |-> PLANETS[q[i]], longitude |-> lons[q[i]]] @@ SignAndDegree(lons[q[i]])]

BodyMaps ==
    {ThreeBodies(lons, q) : lons \in [1..3 -> MapLongitudes], q \in Permutations(1..3)}

\* the instants datetime.now(timezone.utc) returns
NowInstants ==
    {[year |-> 2000, month |-> 2, day |-> 29, hour |-> 23, aware |-> TRUE, offset |-> 0],
     [year |-> 1990, month |-> 5, day |-> 15, hour |-> 14, aware |-> TRUE, offset |-> 0]}

\* the natal planets a transit request is made for: none, two bodies, and the
\* ten bodies of a chart
NatalCharts ==
    {<<>>,
     TwoBodies(0, Deg(91)),
     PlanetEntries(EphAnswer(Deg(10), Deg(44) + 1, {}), 1)}

\* the dates daily aspects are asked for
DailyDates ==
    {NoInstant,
     [year |-> 2000, month |-> 3, day |-> 1, hour |-> 0, aware |-> FALSE, offset |-> 0]}

\* The provider answers of a daily request: the first body at the base and
\* each next body one step further, with every step up to half a circle.
DailyBases == {Deg(300)}

DailySteps == 0..Deg(180)

CallJulianDay ==
    /\ Idle
    /\ \E dt \in BirthInstants :
           /\ call' = [op |-> "calculate_julian_day", dt |-> dt]
           /\ ret' = calculate_julian_day(dt, 0, 0)
           /\ UNCHANGED <<deck, shuffleCount, providerCalls>>
    /\ UNCHANGED restVars

CallCalculateHouses ==
    /\ Idle
    /\ \E asc \in Longitudes, ok \in BOOLEAN :
           /\ call' = [op |-> "calculate_houses", hs |-> HouseAnswer(asc, ok)]
           /\ ret' = calculate_houses(HouseAnswer(asc, ok))
           /\ providerCalls' = 1
           /\ UNCHANGED <<deck, shuffleCount>>
    /\ UNCHANGED restVars

CallCalculateAspects ==
    /\ Idle
    /\ \E planets \in {TwoBodies(lon1, lon2) : lon1 \in AspectBases, lon2 \in Longitudes}
                      \cup BodyMaps :
           /\ call' = [op |-> "calculate_aspects", planets |-> planets]
           /\ ret' = calculate_aspects(planets)
           /\ UNCHANGED <<deck, shuffleCount, providerCalls>>
    /\ UNCHANGED restVars

CallNatalChart ==
    /\ Idle
    /\ \E rq \in ChartRequests :
           LET birth_date == rq[1]
               base == rq[2]
               eph == EphAnswer(base, rq[3], rq[4])
               hs == HouseAnswer((7 * base) % FullCircle, rq[5])
               r == calculate_natal_chart(birth_date, 55, 37, eph, hs)
           IN  /\ call' = [op |-> "calculate_natal_chart", birth_date |-> birth_date,
                           eph |-> eph, hs |-> hs]
               /\ ret' = r.ret
               /\ providerCalls' = r.calls
               /\ UNCHANGED <<deck, shuffleCount>>
    /\ UNCHANGED restVars

CallCurrentTransits ==
    /\ Idle
    /\ \E natal_planets \in NatalCharts, now \in NowInstants, base \in ChartBases,
          step \in ChartSteps, failed \in FailSets :
           LET eph == EphAnswer(base, step, failed)
               r == get_current_transits(natal_planets, now, eph)
           IN  /\ call' = [op |-> "get_current_transits",
                           natal_planets |-> natal_planets, now |-> now, eph |-> eph]
               /\ ret' = r.ret
               /\ providerCalls' = r.calls
               /\ UNCHANGED <<deck, shuffleCount>>
    /\ UNCHANGED restVars

CallDailyAspects ==
    /\ Idle
    /\ \E date \in DailyDates, base \in DailyBases, step \in DailySteps,
          failed \in FailSets :
           LET eph == EphAnswer(base, step, failed)
               r == get_daily_aspects(date, eph)
           IN  /\ call' = [op |-> "get_daily_aspects", date |-> date, eph |-> eph]
               /\ ret' = r.ret
               /\ providerCalls' = r.calls
               /\ UNCHANGED <<deck, shuffleCount>>
    /\ UNCHANGED restVars

(***************************************************************************)
(* Requests served at the same time.  A thread runs one operation of a     *)
(* service in the steps of its code; between two steps any other thread    *)
(* may run.  The working values of an operation (its local variables) are  *)
(* the thread's own; self.letter_values, self.master_numbers,              *)
(* self.spreads, self.PLANETS, self.SIGNS and self.deck are the services'. *)
(***************************************************************************)
\* the number of requests in progress at the same time
NumThreads == 2

Threads == 1..NumThreads

\* the attributes the constructors of the three services set
ServiceTables ==
    [letter_values |-> letter_values,
     master_numbers |-> master_numbers,
     spreads |-> spreads,
     PLANETS |-> PLANETS,
     SIGNS |-> SIGNS]

\* a thread that serves no request
NoRequest == [pc |-> "idle"]

ThreadIdle(t) == threads[t].pc = "idle"

\* thread t goes on with the working values w
Continue(t, w) == threads' = [threads EXCEPT ![t] = w]

\* the names, spreads, seeds and chart requests of the concurrent requests
ThreadNames == {<<"y", "-", "R">>}

ThreadSpreads == {"career", "unknown_spread"}

ThreadSeeds == {SeedStream(<<0, 0>>), SeedStream(<<1, MaxSeed>>)}

ThreadCharts ==
    {<<NoInstant, {}>>,
     <<[year |-> 1990, month |-> 5, day |-> 15, hour |-> 14, aware |-> FALSE,
        offset |-> 0], {"Moon"}>>}

\* calculate_expression_number, entered: clean_name and total = 0
ExpressionBegin(t) ==
    /\ ThreadIdle(t)
    /\ \E full_name \in ThreadNames :
           Continue(t, [pc |-> "expression_loop",
                        op |-> "calculate_expression_number",
                        full_name |-> full_name,
                        clean_name |-> CleanName(full_name),
                        total |-> 0])
    /\ UNCHANGED <<call, ret, deck, shuffleCount, providerCalls, tables, user_states, db, clock>>

\* one iteration of "for letter in clean_name", or the end of the loop and
\* the call of reduce_to_single_digit(total)
ExpressionLetter(t) ==
    /\ threads[t].pc = "expression_loop"
    /\ LET w == threads[t]
           letter == Head(w.clean_name)
       IN  IF w.clean_name = <<>>
           THEN Continue(t, [pc |-> "reduce", op |-> w.op, full_name |-> w.full_name,
                             number |-> w.total])
           ELSE Continue(t, [w EXCEPT
                    !.total = IF letter \in DOMAIN tables.letter_values
                              THEN w.total + tables.letter_values[letter]
                              ELSE w.total,
                    !.clean_name = Tail(w.clean_name)])
    /\ UNCHANGED <<call, ret, deck, shuffleCount, providerCalls, tables, user_states, db, clock>>

\* one test of "while number > 9 and number not in self.master_numbers": the
\* body of the loop, or the return
ReduceStep(t) ==
    /\ threads[t].pc = "reduce"
    /\ LET w == threads[t]
       IN  IF w.number > 9 /\ w.number \notin tables.master_numbers
           THEN Continue(t, [w EXCEPT !.number = SumDigits(StrOfInt(w.number))])
           ELSE Continue(t, [pc |-> "done", op |-> w.op, full_name |-> w.full_name,
                             out |-> w.number])
    /\ UNCHANGED <<call, ret, deck, shuffleCount, providerCalls, tables, user_states, db, clock>>

\* faulty variant: the configuration is taken out of the registry (dict.pop)
LookupSpreadPop(registry, spread_type) ==
    [spread_config |-> registry[spread_type],
     registry |-> [k \in DOMAIN registry \ {spread_type} |-> registry[k]]]

\* spread_config = self.spreads[spread_type]: the configuration, and the
\* registry the lookup leaves
LookupSpread(registry, spread_type) ==
    [spread_config |-> registry[spread_type], registry |-> registry]

\* create_reading, entered: the test of the spread type and the lookup
ReadingBegin(t) ==
    /\ ThreadIdle(t)
    /\ \E spread_type \in ThreadSpreads, seed \in ThreadSeeds :
           IF spread_type \notin DOMAIN tables.spreads
           THEN /\ Continue(t, [pc |-> "done", op |-> "create_reading",
                                spread_type |-> spread_type, seed |-> seed,
                                out |-> UnknownSpread(spread_type)])
                /\ UNCHANGED tables
           ELSE LET r == LookupSpread(tables.spreads, spread_type)
                IN  /\ Continue(t, [pc |-> "reading_shuffle", op |-> "create_reading",
                                    spread_type |-> spread_type, seed |-> seed,
                                    spread_config |-> r.spread_config])
                    /\ tables' = [tables EXCEPT !.spreads = r.registry]
    /\ UNCHANGED <<call, ret, deck, shuffleCount, providerCalls, user_states, db, clock>>

\* draw_cards, entered: shuffled_deck = self.shuffle_deck()
ReadingShuffle(t) ==
    /\ threads[t].pc = "reading_shuffle"
    /\ shuffleCount < MaxShuffles
    /\ LET w == threads[t]
           r == shuffle_deck(deck, w.seed)
       IN  /\ Continue(t, [pc |-> "reading_cards", op |-> w.op,
                           spread_type |-> w.spread_type, seed |-> w.seed,
                           spread_config |-> w.spread_config,
                           shuffled_deck |-> r.ret])
           /\ deck' = r.deck
           /\ shuffleCount' = shuffleCount + r.shuffles
    /\ UNCHANGED <<call, ret, providerCalls, tables, user_states, db, clock>>

\* the rest of draw_cards: the slice and the loop that builds the cards
ReadingCards(t) ==
    /\ threads[t].pc = "reading_cards"
    /\ LET w == threads[t]
           drawn_cards == SliceTo(w.shuffled_deck, w.spread_config.card_count)
       IN  Continue(t, [pc |-> "reading_positions", op |-> w.op,
                        spread_type |-> w.spread_type, seed |-> w.seed,
                        spread_config |-> w.spread_config,
                        cards |-> [i \in 1..Len(drawn_cards) |->
                                      Card(drawn_cards[i], i,
                                           random_tenths(w.seed, Len(w.shuffled_deck) + i)
                                               < ReversedTenths)]])
    /\ UNCHANGED <<call, ret, deck, shuffleCount, providerCalls, tables, user_states, db, clock>>

\* the rest of create_reading: the positions of the cards and the reading
ReadingPositions(t) ==
    /\ threads[t].pc = "reading_positions"
    /\ LET w == threads[t]
       IN  Continue(t, [pc |-> "done", op |-> w.op, spread_type |-> w.spread_type,
                        seed |-> w.seed,
                        out |-> [spread_type |-> w.spread_type,
                                 spread_name |-> w.spread_config.name,
                                 question |-> "<None>",
                                 cards |-> [i \in 1..Len(w.cards) |->
                                               [position |->
                                                    PositionLabel(w.spread_config, i)]
                                               @@ w.cards[i]],
                                 positions |-> w.spread_config.positions,
                                 card_count |-> Len(w.cards)]])
    /\ UNCHANGED <<call, ret, deck, shuffleCount, providerCalls, tables, user_states, db, clock>>

\* calculate_natal_chart, entered: the Julian Day, and the empty planets map
ChartBegin(t) ==
    /\ ThreadIdle(t)
    /\ \E rq \in ThreadCharts :
           LET birth_date == rq[1]
               eph == EphAnswer(Deg(5), Deg(36), rq[2])
               hs == HouseAnswer(Deg(35), TRUE)
               j == calculate_julian_day(birth_date, 55, 37)
           IN  IF "error" \in DOMAIN j
               THEN Continue(t, [pc |-> "done", op |-> "calculate_natal_chart",
                                 birth_date |-> birth_date, eph |-> eph, hs |-> hs,
                                 calls |-> 0, out |-> j])
               ELSE Continue(t, [pc |-> "chart_planets", op |-> "calculate_natal_chart",
                                 birth_date |-> birth_date, eph |-> eph, hs |-> hs,
                                 calls |-> 0, jd |-> j.jd, i |-> 1, planets |-> <<>>])
    /\ UNCHANGED <<call, ret, deck, shuffleCount, providerCalls, tables, user_states, db, clock>>

\* one iteration of "for planet_id, planet_name in self.PLANETS.items()"
ChartPlanet(t) ==
    /\ threads[t].pc = "chart_planets"
    /\ threads[t].i <= Len(tables.PLANETS)
    /\ LET w == threads[t]
           pos == w.eph[w.i]
           sign_index == SignIndex(pos.longitude)
           degree_in_sign == DegreeInSign(pos.longitude)
       IN  IF pos.ok /\ sign_index < Len(tables.SIGNS)
           THEN Continue(t, [w EXCEPT
                    !.planets = Append(w.planets,
                        [name |-> tables.PLANETS[w.i],
                         longitude |-> pos.longitude,
                         sign |-> tables.SIGNS[sign_index + 1],
                         degree |-> degree_in_sign,
                         formatted |-> <<FormatTenths(degree_in_sign),
                                         tables.SIGNS[sign_index + 1]>>]),
                    !.i = w.i + 1,
                    !.calls = w.calls + 1])
           ELSE Continue(t, [w EXCEPT !.i = w.i + 1, !.calls = w.calls + 1])
    /\ UNCHANGED <<call, ret, deck, shuffleCount, providerCalls, tables, user_states, db, clock>>

\* after the loop: the houses, the aspects and the chart
ChartFinish(t) ==
    /\ threads[t].pc = "chart_planets"
    /\ threads[t].i > Len(tables.PLANETS)
    /\ LET w == threads[t]
       IN  Continue(t, [pc |-> "done", op |-> w.op, birth_date |-> w.birth_date,
                        eph |-> w.eph, hs |-> w.hs, calls |-> w.calls + 1,
                        out |-> [planets |-> w.planets,
                                 houses |-> calculate_houses(w.hs),
                                 aspects |-> calculate_aspects(w.planets),
                                 birth_info |-> [date |-> IsoFormat(w.birth_date),
                                                 latitude |-> 55,
                                                 longitude |-> 37,
                                                 julian_day |-> w.jd]]])
    /\ UNCHANGED <<call, ret, deck, shuffleCount, providerCalls, tables, user_states, db, clock>>

\* the operation of thread t has returned; the thread takes the next request
ThreadReturn(t) ==
    /\ threads[t].pc = "done"
    /\ Continue(t, NoRequest)
    /\ UNCHANGED <<call, ret, deck, shuffleCount, providerCalls, tables, user_states, db, clock>>

(***************************************************************************)
(* AstrologerBot: the conversation handlers.  A text is a sequence of      *)
(* one-character strings.  The Telegram API and the database commit are    *)
(* taken to succeed; the AI provider and the geocoder may fail.            *)
(***************************************************************************)
\* the usage counters and the saved-row counts are followed up to MaxUsed
MaxUsed == 2
\* the clock is followed from instant 1 to instant MaxNow
MaxNow == 2

\* "".join(s)
RECURSIVE Str(_)
Str(s) == IF s = <<>> THEN "" ELSE Head(s) \o Str(Tail(s))

\* str.lower() on one character of the texts, which hold ASCII capitals only
LowerChar(c) ==
    IF IsUpper(c) THEN LowerLetters[CHOOSE i \in 1..26 : UpperLetters[i] = c] ELSE c

\* text.lower()
Lower(s) == [i \in 1..Len(s) |-> LowerChar(s[i])]

IsSpace(c) == c \in {" ", "\n", "\t"}

RECURSIVE LStrip(_)
LStrip(s) == IF s # <<>> /\ IsSpace(Head(s)) THEN LStrip(Tail(s)) ELSE s

RECURSIVE RStrip(_)
RStrip(s) ==
    IF s # <<>> /\ IsSpace(s[Len(s)]) THEN RStrip(SubSeq(s, 1, Len(s) - 1)) ELSE s

\* text.strip()
Strip(s) == RStrip(LStrip(s))

\* s.startswith(prefix)
StartsWith(s, prefix) == Len(s) >= Len(prefix) /\ SubSeq(s, 1, Len(prefix)) = prefix

\* s.replace(old, ""): every occurrence of old, from the left, is removed
RECURSIVE Replace(_, _)
Replace(s, old) ==
    IF s = <<>> THEN <<>>
    ELSE IF StartsWith(s, old) THEN Replace(SubSeq(s, Len(old) + 1, Len(s)), old)
    ELSE <<Head(s)>> \o Replace(Tail(s), old)

\* s.split(sep) for a one-character separator
RECURSIVE Split(_, _)
Split(s, sep) ==
    IF \A i \in 1..Len(s) : s[i] # sep THEN <<s>>
    ELSE LET k == CHOOSE i \in 1..Len(s) :
                      s[i] = sep /\ \A j \in 1..(i - 1) : s[j] # sep
         IN  <<SubSeq(s, 1, k - 1)>> \o Split(SubSeq(s, k + 1, Len(s)), sep)

\* the characters \d matches among those of the texts
IsDigit(c) == \E i \in 1..10 : DigitChars[i] = c

IsDigits(s) == \A i \in 1..Len(s) : IsDigit(s[i])

\* the formats parse_date tries, in this order: the separator and the order
\* of the directives %d, %m and %Y
formats ==
    <<[sep |-> ".", directives |-> <<"d", "m", "Y">>],
      [sep |-> "/", directives |-> <<"d", "m", "Y">>],
      [sep |-> "-", directives |-> <<"d", "m", "Y">>],
      [sep |-> "-", directives |-> <<"Y", "m", "d">>],
      [sep |-> "/", directives |-> <<"Y", "m", "d">>],
      [sep |-> ".", directives |-> <<"Y", "m", "d">>],
      [sep |-> "/", directives |-> <<"m", "d", "Y">>],
      [sep |-> "-", directives |-> <<"m", "d", "Y">>],
      [sep |-> ".", directives |-> <<"m", "d", "Y">>]>>

\* whether the field is text the directive of strptime accepts: %d one or two
\* digits reading 1..31 or a space and a digit 1..9, %m one or two digits
\* reading 1..12, %Y four digits
DirectiveAccepts(directive, field) ==
    CASE directive = "d" ->
            \/ Len(field) \in {1, 2} /\ IsDigits(field) /\ IntOfStr(field) \in 1..31
            \/ Len(field) = 2 /\ field[1] = " " /\ IsDigit(field[2]) /\ field[2] # "0"
      [] directive = "m" ->
            Len(field) \in {1, 2} /\ IsDigits(field) /\ IntOfStr(field) \in 1..12
      [] directive = "Y" -> Len(field) = 4 /\ IsDigits(field)

\* int() of the text a directive accepted
DirectiveValue(field) == IntOfStr(IF field[1] = " " THEN Tail(field) ELSE field)

\* faulty variant: the day is not checked against the length of the month
strptime_any_day(date_text, fmt) ==
    LET fields == Split(date_text, fmt.sep)
        at(directive) == CHOOSE i \in 1..3 : fmt.directives[i] = directive
    IN  IF Len(fields) # 3 \/ \E i \in 1..3 : Len(fields[i]) = 0 THEN NoDate
        ELSE IF \E i \in 1..3 : ~DirectiveAccepts(fmt.directives[i], fields[i])
        THEN NoDate
        ELSE [year |-> DirectiveValue(fields[at("Y")]),
              month |-> DirectiveValue(fields[at("m")]),
              day |-> DirectiveValue(fields[at("d")])]

\* datetime.strptime(date_text, fmt): the date read, NoDate for ValueError
\* (text that does not match, the year 0, a day the month does not have)
strptime(date_text, fmt) ==
    LET fields == Split(date_text, fmt.sep)
        at(directive) == CHOOSE i \in 1..3 : fmt.directives[i] = directive
    IN  IF Len(fields) # 3 \/ \E i \in 1..3 : Len(fields[i]) = 0 THEN NoDate
        ELSE IF \E i \in 1..3 : ~DirectiveAccepts(fmt.directives[i], fields[i])
        THEN NoDate
        ELSE LET year == DirectiveValue(fields[at("Y")])
                 month == DirectiveValue(fields[at("m")])
                 day == DirectiveValue(fields[at("d")])
             IN  IF year < 1 \/ day > DaysIn(year, month) THEN NoDate
                 ELSE [year |-> year, month |-> month, day |-> day]

\* parse_date: what the first format that reads the text yields, else None
parse_date(date_text) ==
    LET reading == {i \in 1..Len(formats) : strptime(date_text, formats[i]) # NoDate}
    IN  IF reading = {} THEN NoDate
        ELSE strptime(date_text,
                      formats[CHOOSE i \in reading : \A j \in reading : i <= j])

\* the birth time of a user who gave none; parse_time returns it for a text
\* that is no time
NoTime == "<None>"

\* parse_time: re.match(r'^(\d{1,2}):(\d{2})$') and the range check, then
\* f"{hour:02d}:{minute:02d}"
parse_time(time_text) ==
    LET fields == Split(time_text, ":")
    IN  IF Len(fields) = 2 /\ Len(fields[1]) \in {1, 2} /\ Len(fields[2]) = 2
           /\ IsDigits(fields[1]) /\ IsDigits(fields[2])
           /\ IntOfStr(fields[1]) <= 23 /\ IntOfStr(fields[2]) <= 59
        THEN Str(ZeroPad(StrOfInt(IntOfStr(fields[1])), 2) \o <<":">>
                 \o ZeroPad(StrOfInt(IntOfStr(fields[2])), 2))
        ELSE NoTime

\* f"{x:.2f}" of a coordinate given in hundredths of a degree
FormatHundredths(x) ==
    LET a == IF x < 0 THEN -x ELSE x
    IN  (IF x < 0 THEN "-" ELSE "") \o Str(StrOfInt(a \div 100)) \o "."
        \o Str(ZeroPad(StrOfInt(a % 100), 2))

\* the Telegram ids of the users who write to the bot
TelegramIds == {1}

DEFAULT_LANGUAGE == "en"

\* the languages _build_horoscope_prompt has a wording for
type_text == {"en", "ru", "es"}

\* a nullable coordinate column that holds no value; coordinates are in
\* hundredths of a degree
NoCoordinate == 100000

\* the row get_or_create_user inserts: the column defaults, subscription_expires_at
\* 0 standing for None, the clock starting at instant 1
NewUser ==
    [language_code |-> DEFAULT_LANGUAGE,
     birth_date |-> NoDate,
     birth_time |-> NoTime,
     birth_place |-> "<None>",
     birth_latitude |-> NoCoordinate,
     birth_longitude |-> NoCoordinate,
     birth_timezone |-> "<None>",
     subscription_type |-> "free",
     subscription_expires_at |-> 0,
     daily_horoscopes_used |-> 0,
     weekly_tarot_readings_used |-> 0]

SUBSCRIPTION_TIERS ==
    [free |-> [daily_horoscopes |-> 1, tarot_readings_per_week |-> 1,
               natal_chart |-> FALSE, numerology |-> FALSE, ai_chat |-> FALSE],
     premium |-> [daily_horoscopes |-> -1, tarot_readings_per_week |-> -1,
                  natal_chart |-> TRUE, numerology |-> TRUE, ai_chat |-> TRUE]]

\* User.is_premium at the instant now
is_premium(user, now) ==
    /\ user.subscription_type = "premium"
    /\ user.subscription_expires_at # 0
    /\ now < user.subscription_expires_at

\* User.can_use_feature at the instant now
can_use_feature(user, feature, now) ==
    LET tier == IF is_premium(user, now) THEN "premium" ELSE "free"
        limits == SUBSCRIPTION_TIERS[tier]
    IN  CASE feature = "daily_horoscope" ->
                \/ limits.daily_horoscopes = -1
                \/ user.daily_horoscopes_used < limits.daily_horoscopes
          [] feature = "tarot_reading" ->
                \/ limits.tarot_readings_per_week = -1
                \/ user.weekly_tarot_readings_used < limits.tarot_readings_per_week
          [] feature \in {"natal_chart", "numerology", "ai_chat"} -> limits[feature]
          [] OTHER -> FALSE

\* a conversation state that is missing: user_states.get(id, {})
NoState == [x \in {} |-> x]

\* A handler works on the bot's state b: the conversation states, the
\* database, the tarot deck and the shuffles made, the texts sent so far, the
\* readings create_reading returned, and whether an exception left the handler.
StateOf(b, id) == IF id \in DOMAIN b.user_states THEN b.user_states[id] ELSE NoState

\* user_state.get("step"), "<None>" standing for None
StepOf(user_state) ==
    IF "step" \in DOMAIN user_state THEN user_state.step ELSE "<None>"

\* self.user_states[id] = state
SetState(b, id, state) ==
    [b EXCEPT !.user_states =
        [k \in DOMAIN b.user_states \cup {id} |->
            IF k = id THEN state ELSE b.user_states[k]]]

\* if id in self.user_states: del self.user_states[id]
DelState(b, id) ==
    [b EXCEPT !.user_states =
        [k \in DOMAIN b.user_states \ {id} |-> b.user_states[k]]]

\* update.message.reply_text(text), and edit_message_text on a callback query
Say(b, text) == [b EXCEPT !.replies = Append(@, text)]

\* update.callback_query.edit_message_text on an update that has no callback
\* query: AttributeError
Raise(b) == [b EXCEPT !.raised = TRUE]

get_or_create_user(b, id) ==
    IF id \in DOMAIN b.db.users THEN b
    ELSE [b EXCEPT !.db.users =
            [k \in DOMAIN b.db.users \cup {id} |->
                IF k = id THEN NewUser ELSE b.db.users[k]]]

\* show_main_menu replies to a message and edits the message of a callback query
show_main_menu(b) == Say(b, "main_menu_greeting")

start_onboarding(b) == Say(b, "welcome")

handle_language_selection(b, id, data) ==
    LET lang_code == Str(Split(data, "_")[2])
        saved == [b EXCEPT !.db.users[id].language_code = lang_code]
    IN  SetState(Say(saved, "birth_date_request"), id, [step |-> "birth_date"])

handle_birth_date_input(b, id, text) ==
    LET date_text == Strip(text)
        birth_date == parse_date(date_text)
    IN  IF birth_date = NoDate THEN Say(b, "invalid_date")
        ELSE LET saved == [b EXCEPT !.db.users[id].birth_date = birth_date]
             IN  SetState(Say(saved, "birth_time_request"), id,
                          [step |-> "birth_time"])

\* a letter outside ASCII is written as its code point
skip_words == {<<"s", "k", "i", "p">>,
               <<"U+043F", "U+0440", "U+043E", "U+043F", "U+0443", "U+0441", "U+0442", "U+0438", "U+0442", "U+044C">>,
               <<"s", "a", "l", "t", "a", "r">>}

handle_birth_time_input(b, id, text) ==
    LET time_text == Lower(Strip(text))
        birth_time == IF time_text \in skip_words THEN "12:00"
                      ELSE parse_time(time_text)
    IN  IF birth_time = NoTime THEN Say(b, "invalid_time")
        ELSE LET saved == [b EXCEPT !.db.users[id].birth_time = birth_time]
             IN  SetState(Say(saved, "birth_place_request"), id,
                          [step |-> "birth_place"])

\* tf.timezone_at(lat, lng) of the places of the model, None elsewhere
timezone_at == [p \in {<<4886, 235>>} |-> "Europe/Paris"]

\* get_timezone: the name found, or "UTC"
get_timezone(latitude, longitude) ==
    IF <<latitude, longitude>> \in DOMAIN timezone_at
    THEN timezone_at[<<latitude, longitude>>] ELSE "UTC"

\* what the geocoder answers: a place with its coordinates, or nothing,
\* for which get_coordinates raises ValueError
GeocoderAnswers ==
    {[found |-> TRUE, latitude |-> 4886, longitude |-> 235],
     [found |-> FALSE, latitude |-> NoCoordinate, longitude |-> NoCoordinate]}

handle_birth_place_input(b, id, text, geo) ==
    LET place_text == Strip(text)
    IN  IF ~geo.found THEN Say(b, "location_not_found")
        ELSE LET saved ==
                     [b EXCEPT !.db.users[id].birth_place = Str(place_text),
                               !.db.users[id].birth_latitude = geo.latitude,
                               !.db.users[id].birth_longitude = geo.longitude,
                               !.db.users[id].birth_timezone =
                                    get_timezone(geo.latitude, geo.longitude)]
             IN  show_main_menu(DelState(Say(saved, "onboarding_complete"), id))

\* generate_response raises when the provider fails; the horoscope prompt
\* raises KeyError for a language without wording
handle_daily_horoscope(b, id, has_query, ai, now) ==
    LET user == b.db.users[id]
    IN  IF ~has_query THEN Raise(b)
        ELSE IF ~can_use_feature(user, "daily_horoscope", now)
        THEN Say(b, "daily_limit_reached")
        ELSE IF ~ai \/ user.language_code \notin type_text
        THEN Say(Say(b, "generating_horoscope"), "error_occurred")
        ELSE LET saved ==
                     [b EXCEPT !.db.horoscopes =
                                    Append(@, [user_id |-> id,
                                               horoscope_type |-> "daily"]),
                               !.db.users[id].daily_horoscopes_used = @ + 1]
             IN  Say(Say(saved, "generating_horoscope"), "daily_horoscope")

show_tarot_menu(b, has_query) ==
    IF has_query THEN Say(b, "tarot_menu") ELSE Raise(b)

spread_mapping ==
    [k \in {<<"s", "i", "n", "g", "l", "e">>,
            <<"t", "h", "r", "e", "e">>,
            <<"r", "e", "l", "a", "t", "i", "o", "n", "s", "h", "i", "p">>,
            <<"c", "a", "r", "e", "e", "r">>,
            <<"c", "e", "l", "t", "i", "c">>} |->
        CASE k = <<"s", "i", "n", "g", "l", "e">> -> "single"
          [] k = <<"t", "h", "r", "e", "e">> -> "three_card"
          [] k = <<"r", "e", "l", "a", "t", "i", "o", "n", "s", "h", "i", "p">> -> "relationship"
          [] k = <<"c", "a", "r", "e", "e", "r">> -> "career"
          [] k = <<"c", "e", "l", "t", "i", "c">> -> "celtic_cross"]

\* faulty variant: a key the mapping does not have is passed on as it is
actual_spread_without_default(spread_type) ==
    IF spread_type \in DOMAIN spread_mapping THEN spread_mapping[spread_type]
    ELSE Str(spread_type)

\* spread_mapping.get(spread_type, "single")
actual_spread(spread_type) ==
    IF spread_type \in DOMAIN spread_mapping THEN spread_mapping[spread_type]
    ELSE "single"

handle_tarot_selection(b, id, data, now) ==
    IF ~can_use_feature(b.db.users[id], "tarot_reading", now)
    THEN Say(b, "daily_limit_reached")
    ELSE LET spread_type == Replace(data, <<"t", "a", "r", "o", "t", "_">>)
         IN  SetState(Say(b, "tarot_question_request"), id,
                      [step |-> "tarot_question",
                       spread_type |-> actual_spread(spread_type)])

no_words == {<<"n", "o">>, <<"U+043D", "U+0435", "U+0442">>, <<"s", "k", "i", "p">>}

\* create_reading raises ValueError for a spread type the registry lacks
handle_tarot_question(b, id, text, ai, seed) ==
    LET question_text == Strip(text)
        user_state == StateOf(b, id)
        spread_type == IF "spread_type" \in DOMAIN user_state
                       THEN user_state.spread_type ELSE "single"
        question == IF Lower(question_text) \in no_words THEN "<None>"
                    ELSE Str(question_text)
        r == create_reading(b.deck, spread_type, question, seed)
        drawn == [Say(b, "generating_tarot") EXCEPT
                     !.deck = r.deck,
                     !.shuffles = r.shuffles,
                     !.readings = Append(@, [spread_type |-> spread_type,
                                             question |-> question,
                                             reading |-> r.ret])]
    IN  IF spread_type \notin DOMAIN spreads \/ ~ai
        THEN Say(drawn, "error_occurred")
        ELSE LET saved ==
                     [drawn EXCEPT
                         !.db.tarot_readings =
                              Append(@, [user_id |-> id,
                                         reading_type |-> spread_type]),
                         !.db.users[id].weekly_tarot_readings_used = @ + 1]
             IN  DelState(Say(saved, "tarot_reading"), id)

\* the chart and its interpretation are sent, or an exception is answered
\* with the error text; nothing is stored
handle_natal_chart(b, id, has_query, ai, now) ==
    LET user == b.db.users[id]
    IN  IF ~has_query THEN Raise(b)
        ELSE IF ~can_use_feature(user, "natal_chart", now)
        THEN Say(b, "feature_not_available")
        ELSE IF user.birth_date = NoDate \/ user.birth_latitude \in {NoCoordinate, 0}
                \/ user.birth_longitude \in {NoCoordinate, 0}
        THEN Say(b, "birth_data_required")
        ELSE IF ~ai \/ user.birth_time = NoTime
        THEN Say(Say(b, "generating_natal"), "error_occurred")
        ELSE Say(Say(b, "generating_natal"), "natal_chart")

handle_numerology(b, id, has_query, ai, now) ==
    LET user == b.db.users[id]
    IN  IF ~has_query THEN Raise(b)
        ELSE IF ~can_use_feature(user, "numerology", now)
        THEN Say(b, "feature_not_available")
        ELSE IF user.birth_date = NoDate THEN Say(b, "birth_date_required")
        ELSE IF ~ai THEN Say(Say(b, "generating_numerology"), "error_occurred")
        ELSE Say(Say(b, "generating_numerology"), "numerology_reading")

start_ai_chat(b, id, now) ==
    IF ~can_use_feature(b.db.users[id], "ai_chat", now)
    THEN Say(b, "feature_not_available")
    ELSE SetState(Say(b, "ai_chat_activated"), id, [step |-> "ai_chat"])

exit_words == {<<"e", "x", "i", "t">>,
               <<"U+0432", "U+044B", "U+0445", "U+043E", "U+0434">>,
               <<"s", "a", "l", "i", "r">>}

handle_ai_chat_message(b, id, text, ai) ==
    LET message_text == Strip(text)
    IN  IF Lower(message_text) \in exit_words THEN show_main_menu(DelState(b, id))
        ELSE IF ai THEN Say(b, "chat_response")
        ELSE Say(b, "error_occurred")

show_settings(b, has_query) ==
    IF has_query THEN Say(b, "settings") ELSE Raise(b)

show_subscription_options(b, has_query) ==
    IF has_query THEN Say(b, "subscription_options") ELSE Raise(b)

\* handle_callback after get_or_create_user: the first branch whose test the
\* callback data passes
handle_callback(b, id, data, ai, now) ==
    IF StartsWith(data, <<"l", "a", "n", "g", "_">>) THEN handle_language_selection(b, id, data)
    ELSE IF data = <<"h", "o", "r", "o", "s", "c", "o", "p", "e", "_", "d", "a", "i", "l", "y">>
         THEN handle_daily_horoscope(b, id, TRUE, ai, now)
    ELSE IF data = <<"t", "a", "r", "o", "t", "_", "m", "e", "n", "u">>
         THEN show_tarot_menu(b, TRUE)
    ELSE IF StartsWith(data, <<"t", "a", "r", "o", "t", "_">>)
         THEN handle_tarot_selection(b, id, data, now)
    ELSE IF data = <<"n", "a", "t", "a", "l", "_", "c", "h", "a", "r", "t">>
         THEN handle_natal_chart(b, id, TRUE, ai, now)
    ELSE IF data = <<"n", "u", "m", "e", "r", "o", "l", "o", "g", "y">>
         THEN handle_numerology(b, id, TRUE, ai, now)
    ELSE IF data = <<"a", "i", "_", "c", "h", "a", "t">> THEN start_ai_chat(b, id, now)
    ELSE IF data = <<"s", "e", "t", "t", "i", "n", "g", "s">> THEN show_settings(b, TRUE)
    ELSE IF data = <<"s", "u", "b", "s", "c", "r", "i", "b", "e">>
         THEN show_subscription_options(b, TRUE)
    ELSE IF data = <<"b", "a", "c", "k", "_", "m", "a", "i", "n">> THEN show_main_menu(b)
    ELSE Say(b, "unknown_option")

\* handle_message after get_or_create_user: the handler of the user's step
handle_message(b, id, text, ai, geo, seed, now) ==
    LET step == StepOf(StateOf(b, id))
    IN  CASE step = "birth_date" -> handle_birth_date_input(b, id, text)
          [] step = "birth_time" -> handle_birth_time_input(b, id, text)
          [] step = "birth_place" -> handle_birth_place_input(b, id, text, geo)
          [] step = "ai_chat" -> handle_ai_chat_message(b, id, text, ai)
          [] step = "tarot_question" -> handle_tarot_question(b, id, text, ai, seed)
          [] OTHER -> IF can_use_feature(b.db.users[id], "ai_chat", now)
                      THEN handle_ai_chat_message(b, id, text, ai)
                      ELSE show_main_menu(b)

\* handle_location after get_or_create_user
handle_location(b, id, location) ==
    IF StepOf(StateOf(b, id)) = "birth_place"
    THEN LET saved ==
                 [b EXCEPT !.db.users[id].birth_latitude = location.latitude,
                           !.db.users[id].birth_longitude = location.longitude,
                           !.db.users[id].birth_timezone =
                                get_timezone(location.latitude, location.longitude),
                           !.db.users[id].birth_place =
                                "Lat: " \o FormatHundredths(location.latitude)
                                \o ", Lon: " \o FormatHundredths(location.longitude)]
         IN  show_main_menu(DelState(Say(saved, "onboarding_complete"), id))
    ELSE b

\* start_command after get_or_create_user
start_command(b, id) ==
    IF b.db.users[id].birth_date = NoDate THEN start_onboarding(b)
    ELSE show_main_menu(b)

\* the handler a command passes its update to; the update of a command has
\* no callback query
command_handler(b, id, command, ai, now) ==
    CASE command = "horoscope" -> handle_daily_horoscope(b, id, FALSE, ai, now)
      [] command = "tarot" -> show_tarot_menu(b, FALSE)
      [] command = "natal" -> handle_natal_chart(b, id, FALSE, ai, now)
      [] command = "numerology" -> handle_numerology(b, id, FALSE, ai, now)
      [] command = "subscribe" -> show_subscription_options(b, FALSE)
      [] command = "settings" -> show_settings(b, FALSE)

\* horoscope_command and the other feature commands: the exception that
\* leaves the handler is answered with the apology
feature_command(b, id, command, ai, now) ==
    LET r == command_handler(b, id, command, ai, now)
    IN  IF r.raised THEN Say([b EXCEPT !.raised = FALSE], "something_went_wrong")
        ELSE r

(***************************************************************************)
(* The services after construction, and their specifications.              *)
(***************************************************************************)
Init ==
    /\ call = [op |-> "idle"]
    /\ ret = 0
    /\ deck = TAROT_CARDS
    /\ shuffleCount = 0
    /\ providerCalls = 0
    /\ threads = [t \in Threads |-> NoRequest]
    /\ tables = ServiceTables
    /\ user_states = NoState
    /\ db = [connected |-> FALSE, users |-> NoState, horoscopes |-> <<>>,
             tarot_readings |-> <<>>]
    /\ clock = 0

\* the call returns to its caller and the services wait for the next request
Return ==
    /\ ~Idle
    /\ call' = [op |-> "idle"]
    /\ ret' = 0
    /\ providerCalls' = 0
    /\ UNCHANGED <<deck, shuffleCount>>
    /\ UNCHANGED restVars

\* the numbers and categories get_number_meaning is called with
MeaningNumbers == 0..MaxMeaningNumber

NumberTypes == {"life_path", "expression", "soul_urge", "personality", "birth_day",
                "attitude", "maturity", ""}

CallGetNumberMeaning ==
    /\ Idle
    /\ \E number \in MeaningNumbers, number_type \in NumberTypes :
           /\ call' = [op |-> "get_number_meaning", number |-> number,
                       number_type |-> number_type]
           /\ ret' = get_number_meaning(number, number_type)
           /\ UNCHANGED <<deck, shuffleCount, providerCalls>>
    /\ UNCHANGED restVars

CallCreateFullReading ==
    /\ Idle
    /\ \E full_name \in Names, birth_date \in ProfileDates :
           /\ call' = [op |-> "create_full_reading", full_name |-> full_name,
                       birth_date |-> birth_date]
           /\ ret' = create_full_reading(full_name, birth_date)
           /\ UNCHANGED <<deck, shuffleCount, providerCalls>>
    /\ UNCHANGED restVars

NextNumerology ==
    \/ CallReduce
    \/ CallLifePath
    \/ CallBirthDay
    \/ CallAttitude
    \/ CallExpression
    \/ CallSoulUrge
    \/ CallPersonality
    \/ CallAllNumbers
    \/ CallGetNumberMeaning
    \/ CallCreateFullReading
    \/ Return

SpecNumerology == Init /\ [][NextNumerology]_vars

NextTarot ==
    \/ CallShuffleDeck
    \/ CallDrawCards
    \/ CallCreateReading
    \/ CallGetCardMeaning
    \/ Return

SpecTarot == Init /\ [][NextTarot]_vars

NextChart ==
    \/ CallJulianDay
    \/ CallCalculateHouses
    \/ CallCalculateAspects
    \/ CallNatalChart
    \/ CallCurrentTransits
    \/ CallDailyAspects
    \/ Return

SpecChart == Init /\ [][NextChart]_vars

NextConcurrent ==
    \E t \in Threads :
        \/ ExpressionBegin(t)
        \/ ExpressionLetter(t)
        \/ ReduceStep(t)
        \/ ReadingBegin(t)
        \/ ReadingShuffle(t)
        \/ ReadingCards(t)
        \/ ReadingPositions(t)
        \/ ChartBegin(t)
        \/ ChartPlanet(t)
        \/ ChartFinish(t)
        \/ ThreadReturn(t)

SpecConcurrent == Init /\ [][NextConcurrent]_vars

(***************************************************************************)
(* What the users send, and what the services outside the bot answer.      *)
(***************************************************************************)
\* the random source of the readings made for the bot
BotSeeds == {SeedStream(<<1, MaxSeed>>)}

\* what the users table holds when the application starts: nothing, or the
\* row of a subscriber whose subscription ends at the instant MaxNow
StoredUsers ==
    {NoState,
     [id \in TelegramIds |->
        [NewUser EXCEPT !.subscription_type = "premium",
                        !.subscription_expires_at = MaxNow]]}

\* the bot's state when an update arrives, the user's row fetched or inserted
Arrived(id) ==
    get_or_create_user([user_states |-> user_states, db |-> db, deck |-> deck,
                        shuffles |-> 0, replies |-> <<>>, readings |-> <<>>,
                        raised |-> FALSE], id)

BotIdle == Idle /\ db.connected

\* the update was handled with the outcome r: the call records the update and
\* the state it met, the result the texts sent and the readings made
Handled(op, id, update, r) ==
    /\ shuffleCount + r.shuffles <= MaxShuffles
    /\ \A k \in DOMAIN r.db.users :
          /\ r.db.users[k].daily_horoscopes_used <= MaxUsed
          /\ r.db.users[k].weekly_tarot_readings_used <= MaxUsed
    /\ call' = [op |-> op, id |-> id, update |-> update,
                before |-> [user_states |-> user_states, db |-> db, now |-> clock]]
    /\ ret' = [replies |-> r.replies, readings |-> r.readings]
    /\ user_states' = r.user_states
    /\ db' = r.db
    /\ deck' = r.deck
    /\ shuffleCount' = shuffleCount + r.shuffles
    /\ UNCHANGED <<providerCalls, threads, tables, clock>>

\* initialize: the handlers are registered and the database is reached
Initialize ==
    /\ Idle
    /\ ~db.connected
    /\ \E stored \in StoredUsers :
          db' = [db EXCEPT !.connected = TRUE, !.users = stored]
    /\ clock' = 1
    /\ UNCHANGED <<call, ret, deck, shuffleCount, providerCalls, threads, tables,
                   user_states>>

\* time passes: datetime.utcnow() is read by is_premium
Tick ==
    /\ BotIdle
    /\ clock < MaxNow
    /\ clock' = clock + 1
    /\ UNCHANGED <<call, ret, deck, shuffleCount, providerCalls, threads, tables,
                   user_states, db>>

StartCommand ==
    /\ BotIdle
    /\ \E id \in TelegramIds :
          Handled("start_command", id, [command |-> "start"],
                  start_command(Arrived(id), id))

\* a command of Commands arrives
FeatureCommand(Commands) ==
    /\ BotIdle
    /\ \E id \in TelegramIds, command \in Commands, ai \in BOOLEAN :
          Handled("feature_command", id, [command |-> command],
                  feature_command(Arrived(id), id, command, ai, clock))

\* a button with data of CallbackData is pressed
HandleCallback(CallbackData) ==
    /\ BotIdle
    /\ \E id \in TelegramIds, data \in CallbackData, ai \in BOOLEAN :
          Handled("handle_callback", id, [data |-> data],
                  handle_callback(Arrived(id), id, data, ai, clock))

\* a text of MessageTexts is written
HandleMessage(MessageTexts) ==
    /\ BotIdle
    /\ \E id \in TelegramIds, text \in MessageTexts, ai \in BOOLEAN,
          geo \in GeocoderAnswers, seed \in BotSeeds :
          Handled("handle_message", id, [text |-> text],
                  handle_message(Arrived(id), id, text, ai, geo, seed, clock))

Locations == {[latitude |-> -3387, longitude |-> 15121]}

HandleLocation ==
    /\ BotIdle
    /\ \E id \in TelegramIds, location \in Locations :
          Handled("handle_location", id, [location |-> location],
                  handle_location(Arrived(id), id, location))

(***************************************************************************)
(* The tarot conversation: the buttons of the tarot menu, data the menu    *)
(* has no button for, and the answers to the question prompt.              *)
(***************************************************************************)
TarotCallbackData ==
    {<<"t", "a", "r", "o", "t", "_", "m", "e", "n", "u">>,
     <<"t", "a", "r", "o", "t", "_", "s", "i", "n", "g", "l", "e">>,
     <<"t", "a", "r", "o", "t", "_", "t", "h", "r", "e", "e">>,
     <<"t", "a", "r", "o", "t", "_", "r", "e", "l", "a", "t", "i", "o", "n", "s", "h", "i", "p">>,
     <<"t", "a", "r", "o", "t", "_", "c", "a", "r", "e", "e", "r">>,
     <<"t", "a", "r", "o", "t", "_", "c", "e", "l", "t", "i", "c">>,
     <<"t", "a", "r", "o", "t", "_", "t", "h", "r", "e", "e", "_", "c", "a", "r", "d">>,
     <<"t", "a", "r", "o", "t", "_">>,
     <<"t", "a", "r", "o", "t", "_", "t", "a", "r", "o", "t", "_", "c", "a", "r", "e", "e", "r">>,
     <<"t", "a", "r", "o", "t", "_", "C", "e", "l", "t", "i", "c">>,
     <<"b", "a", "c", "k", "_", "m", "a", "i", "n">>}

TarotTexts == {<<"n", "o">>,
               <<" ", "W", "i", "l", "l", " ", "I", " ", "f", "i", "n", "d", " ", "l", "o", "v", "e", "?", " ">>,
               <<"E", "x", "i", "t">>}

TarotCallback == HandleCallback(TarotCallbackData)

TarotMessage == HandleMessage(TarotTexts)

TarotCommand == FeatureCommand({"tarot"})

NextBotTarot ==
    \/ Initialize
    \/ TarotCallback
    \/ TarotMessage
    \/ TarotCommand
    \/ Return

SpecBotTarot == Init /\ [][NextBotTarot]_vars

(***************************************************************************)
(* The features and their limits: the feature buttons and commands, the    *)
(* texts of a chat, and the clock passing the end of a subscription.       *)
(***************************************************************************)
LimitsCallbackData ==
    {<<"l", "a", "n", "g", "_", "r", "u">>,
     <<"h", "o", "r", "o", "s", "c", "o", "p", "e", "_", "d", "a", "i", "l", "y">>,
     <<"n", "a", "t", "a", "l", "_", "c", "h", "a", "r", "t">>,
     <<"n", "u", "m", "e", "r", "o", "l", "o", "g", "y">>,
     <<"a", "i", "_", "c", "h", "a", "t">>,
     <<"s", "e", "t", "t", "i", "n", "g", "s">>,
     <<"s", "u", "b", "s", "c", "r", "i", "b", "e">>,
     <<"s", "u", "b", "_", "m", "o", "n", "t", "h", "l", "y">>}

LimitsTexts == {<<"1", "5", ".", "0", "5", ".", "1", "9", "9", "0">>,
                <<"W", "h", "a", "t", " ", "a", "w", "a", "i", "t", "s", " ", "m", "e", "?">>,
                <<"E", "X", "I", "T", " ">>}

LimitsCallback == HandleCallback(LimitsCallbackData)

LimitsMessage == HandleMessage(LimitsTexts)

LimitsCommand ==
    FeatureCommand({"horoscope", "natal", "numerology", "subscribe", "settings"})

NextBotLimits ==
    \/ Initialize
    \/ Tick
    \/ LimitsCallback
    \/ LimitsMessage
    \/ LimitsCommand
    \/ Return

SpecBotLimits == Init /\ [][NextBotLimits]_vars

(***************************************************************************)
(* Onboarding: the language button, the texts answering the three          *)
(* questions, a shared location, and buttons of the menus pressed while    *)
(* the questions are open.                                                 *)
(***************************************************************************)
OnboardingCallbackData == {<<"l", "a", "n", "g", "_", "e", "n">>,
                           <<"t", "a", "r", "o", "t", "_", "s", "i", "n", "g", "l", "e">>,
                           <<"a", "i", "_", "c", "h", "a", "t">>,
                           <<"b", "a", "c", "k", "_", "m", "a", "i", "n">>}

OnboardingTexts ==
    {<<"1", "5", ".", "0", "5", ".", "1", "9", "9", "0">>,
     <<" ", "1", "9", "9", "0", "-", "0", "5", "-", "1", "5", " ">>,
     <<"5", "/", "1", "5", "/", "1", "9", "9", "0">>,
     <<"3", "1", ".", "0", "2", ".", "1", "9", "9", "0">>,
     <<"1", "9", "9", "0", "-", "5", "-", " ", "5">>,
     <<"7", ":", "0", "5">>,
     <<"2", "4", ":", "0", "0">>,
     <<"S", "k", "i", "p">>,
     <<"P", "a", "r", "i", "s">>,
     <<"n", "o">>,
     <<"E", "x", "i", "t">>}

OnboardingCallback == HandleCallback(OnboardingCallbackData)

OnboardingMessage == HandleMessage(OnboardingTexts)

NextBotOnboarding ==
    \/ Initialize
    \/ StartCommand
    \/ OnboardingCallback
    \/ OnboardingMessage
    \/ HandleLocation
    \/ Return

SpecBotOnboarding == Init /\ [][NextBotOnboarding]_vars

(***************************************************************************)
(* Properties of the NumerologyService.                                    *)
(***************************************************************************)
ProfileKeys ==
    {"life_path", "expression", "soul_urge", "personality", "birth_day", "attitude"}

\* the sum of the decimal digits of n, by arithmetic
RECURSIVE DigitSum(_)
DigitSum(n) == IF n = 0 THEN 0 ELSE (n % 10) + DigitSum(n \div 10)

\* the k-th element of the sequence n, digitsum(n), digitsum(digitsum(n)), ...
RECURSIVE IterDigitSum(_, _)
IterDigitSum(n, k) == IF k = 0 THEN n ELSE IterDigitSum(DigitSum(n), k - 1)

IsFinalValue(v) == v <= 9 \/ v \in {11, 22, 33}

\* C1: reduce_to_single_digit is idempotent: reducing its result again gives
\* the same value, for every x and for every number of a profile.
C1_ReduceIdempotent ==
    /\ call.op = "reduce_to_single_digit" => reduce_to_single_digit(ret) = ret
    /\ call.op = "calculate_all_numbers" =>
           \A k \in ProfileKeys : reduce_to_single_digit(ret[k]) = ret[k]

C1_Witness ==
    /\ call.op = "reduce_to_single_digit"
    /\ call.number = 199
    /\ ret = 1

\* C2: reduce_to_single_digit returns the first value of the sequence
\* n, digitsum(n), digitsum(digitsum(n)), ... that is at most 9 or a master
\* number; 11, 22 and 33 are returned as they are and 29 gives 11, not 2.
C2_FirstFinalValue ==
    call.op = "reduce_to_single_digit" =>
        /\ \E k \in 0..MaxReduceSteps :
               /\ ret = IterDigitSum(call.number, k)
               /\ IsFinalValue(IterDigitSum(call.number, k))
               /\ \A j \in 0..(k - 1) : ~IsFinalValue(IterDigitSum(call.number, j))
        /\ call.number \in {11, 22, 33} => ret = call.number
        /\ call.number = 29 => ret = 11

C2_Witness ==
    /\ call.op = "reduce_to_single_digit"
    /\ call.number = 29
    /\ ret = 11

\* the sum of the eight digits of the date written as MMDDYYYY
DateDigitSum(d) ==
    (d.month \div 10) + (d.month % 10) + (d.day \div 10) + (d.day % 10)
    + (d.year \div 1000) + ((d.year \div 100) % 10) + ((d.year \div 10) % 10)
    + (d.year % 10)

\* C3: the life path number of a birth date is reduce_to_single_digit of the
\* sum of the eight digits of MMDDYYYY; 1990-05-15 has digit sum 30 and life
\* path 3.
C3_LifePathDigitSum ==
    (call.op = "calculate_life_path_number" /\ call.birth_date # NoDate) =>
        /\ ret = reduce_to_single_digit(DateDigitSum(call.birth_date))
        /\ call.birth_date = [year |-> 1990, month |-> 5, day |-> 15] =>
               (DateDigitSum(call.birth_date) = 30 /\ ret = 3)

C3_Witness ==
    /\ call.op = "calculate_life_path_number"
    /\ call.birth_date = [year |-> 1990, month |-> 5, day |-> 15]
    /\ ret = 3

IsLetterChar(c) == IsUpper(c) \/ IsLower(c)
\* the alphabetic characters: the ASCII letters and the letter ß
IsAlphabetic(c) == IsLetterChar(c) \/ c = "ß"
IsVowelChar(c) == c \in {"A", "E", "I", "O", "U", "a", "e", "i", "o", "u"}

HasLetter(name) == \E i \in 1..Len(name) : IsAlphabetic(name[i])
HasVowel(name) == \E i \in 1..Len(name) : IsVowelChar(name[i])
HasConsonant(name) ==
    \E i \in 1..Len(name) : IsAlphabetic(name[i]) /\ ~IsVowelChar(name[i])

\* C4 as stated: every number of the profile is a digit 1..9 or a master
\* number.
C4_AllNumbersInRange ==
    call.op = "calculate_all_numbers" =>
        \A k \in ProfileKeys : ret[k] \in (1..9) \cup {11, 22, 33}

\* C4 amended: every number of the profile is a digit 0..9 or a master number;
\* life_path, birth_day and attitude are never 0; expression is 0 exactly for a
\* name without letters, soul_urge exactly for a name without a vowel and
\* personality exactly for a name without a consonant (the name being a
\* string).
C4_AllNumbersInRangeOrZero ==
    call.op = "calculate_all_numbers" =>
        /\ \A k \in ProfileKeys : ret[k] \in (0..9) \cup {11, 22, 33}
        /\ \A k \in {"life_path", "birth_day", "attitude"} : ret[k] # 0
        /\ call.full_name # NoName =>
               /\ ret.expression = 0 <=> ~HasLetter(call.full_name)
               /\ ret.soul_urge = 0 <=> ~HasVowel(call.full_name)
               /\ ret.personality = 0 <=> ~HasConsonant(call.full_name)

C4_Witness ==
    /\ call.op = "calculate_all_numbers"
    /\ call.full_name = <<"R", "d", "y">>
    /\ call.birth_date = [year |-> 1990, month |-> 9, day |-> 5]
    /\ ret.soul_urge = 0
    /\ ret.expression = 2
    /\ ret.personality = 2
    /\ ret.life_path = 33

NameOps ==
    {"calculate_expression_number", "calculate_soul_urge_number",
     "calculate_personality_number"}

\* C5: for a name without any alphabetic character the expression, soul urge
\* and personality numbers are 0 (no error value is returned).
C5_NoLettersGivesZero ==
    /\ (call.op \in NameOps /\ call.full_name # NoName /\ ~HasLetter(call.full_name)) =>
           ret = 0
    /\ (call.op = "calculate_all_numbers" /\ call.full_name # NoName
            /\ ~HasLetter(call.full_name)) =>
           (ret.expression = 0 /\ ret.soul_urge = 0 /\ ret.personality = 0)

C5_Witness ==
    /\ call.op = "calculate_all_numbers"
    /\ call.full_name = <<"-", "-">>
    /\ ret.expression = 0
    /\ ret.soul_urge = 0
    /\ ret.personality = 0

\* the place k of a letter in the alphabet, 1..26, whatever its case
AlphabetIndex(c) == CHOOSE k \in 1..26 : UpperLetters[k] = c \/ LowerLetters[k] = c

\* the value of the k-th letter of the alphabet is ((k - 1) mod 9) + 1
PythagoreanValue(c) == ((AlphabetIndex(c) - 1) % 9) + 1

\* the letters a number counts: all of them, the vowels, or the others
Counted(c, op) ==
    /\ IsLetterChar(c)
    /\ \/ op = "calculate_expression_number"
       \/ op = "calculate_soul_urge_number" /\ IsVowelChar(c)
       \/ op = "calculate_personality_number" /\ ~IsVowelChar(c)

\* the sum of the values of the letters of the name that op counts, from the
\* i-th character on
RECURSIVE ValueSum(_, _, _)
ValueSum(name, i, op) ==
    IF i > Len(name) THEN 0
    ELSE (IF Counted(name[i], op) THEN PythagoreanValue(name[i]) ELSE 0)
         + ValueSum(name, i + 1, op)

\* the number op computes for a name
NameNumber(op, name) ==
    CASE op = "calculate_expression_number" -> calculate_expression_number(name)
      [] op = "calculate_soul_urge_number" -> calculate_soul_urge_number(name)
      [] op = "calculate_personality_number" -> calculate_personality_number(name)

\* the name with the case of every letter exchanged
SwapCase(name) ==
    [i \in 1..Len(name) |->
        IF IsUpper(name[i]) THEN LowerLetters[AlphabetIndex(name[i])]
        ELSE IF IsLower(name[i]) THEN UpperLetters[AlphabetIndex(name[i])]
        ELSE name[i]]

\* the orders the characters of a name of length n can be put in
Orders(n) == {p \in [1..n -> 1..n] : \A a, b \in 1..n : a # b => p[a] # p[b]}

\* the letters of the name are ASCII letters
AsciiLetters(name) == \A i \in 1..Len(name) : IsAlphabetic(name[i]) => IsLetterChar(name[i])

\* C20: for a name of ASCII letters and other characters, the expression
\* number is the reduction of the sum of the values of all letters of the
\* name, the soul urge number that of the vowels A, E, I, O, U only and the
\* personality number that of all other letters only, non-letters dropped and
\* case ignored, the k-th letter of the alphabet counting ((k - 1) mod 9) + 1;
\* neither the order of the characters nor the case of the letters changes
\* the number.
C20_LetterSums ==
    (call.op \in NameOps /\ call.full_name # NoName /\ AsciiLetters(call.full_name)) =>
        LET name == call.full_name
        IN  /\ ret = reduce_to_single_digit(ValueSum(name, 1, call.op))
            /\ NameNumber(call.op, SwapCase(name)) = ret
            /\ \A p \in Orders(Len(name)) :
                   NameNumber(call.op, [i \in 1..Len(name) |-> name[p[i]]]) = ret

C20_Witness ==
    /\ call.op = "calculate_personality_number"
    /\ call.full_name = <<"y", "-", "R">>
    /\ ret = 7

(***************************************************************************)
(* Properties of the TarotService.                                         *)
(***************************************************************************)
IsError(r) == "error" \in DOMAIN r

NamesDistinct(cards) ==
    \A i, j \in 1..Len(cards) : i # j => cards[i].name # cards[j].name

\* C6: draw_cards(n) with 0 <= n <= 78 returns exactly n cards with pairwise
\* distinct names taken from the deck; draw_cards(78) returns every deck card
\* exactly once; no card name repeats within a reading.
C6_DrawWithoutReplacement ==
    /\ (call.op = "draw_cards" /\ call.count \in 0..78) =>
           /\ Len(ret) = call.count
           /\ NamesDistinct(ret)
           /\ \A i \in 1..Len(ret) : \E k \in 1..Len(deck) : ret[i].name = deck[k]
           /\ call.count = 78 =>
                  /\ Len(TAROT_CARDS) = 78
                  /\ \A k \in 1..78 :
                         Cardinality({i \in 1..Len(ret) : ret[i].name = TAROT_CARDS[k]}) = 1
    /\ (call.op = "create_reading" /\ ~IsError(ret)) => NamesDistinct(ret.cards)

C6_Witness ==
    /\ call.op = "draw_cards"
    /\ call.count = 78
    /\ Len(ret) = 78
    /\ ret[1].name # TAROT_CARDS[1]
    /\ ret[78].name # TAROT_CARDS[78]

\* the registered spreads and their card counts
RegisteredCounts ==
    [single |-> 1, three_card |-> 3, relationship |-> 3, career |-> 3,
     celtic_cross |-> 10]

GenericLabels == {"Position " \o ToString(i) : i \in 1..Len(TAROT_CARDS)}

\* C7: for a registered spread create_reading returns exactly the registered
\* number of cards, the i-th card carries the i-th registered position label
\* (never a generic "Position N" label), the question is the input question,
\* and the 10 labels of celtic_cross are distinct.
C7_ReadingFollowsRegistry ==
    (call.op = "create_reading" /\ call.spread_type \in DOMAIN RegisteredCounts) =>
        /\ ~IsError(ret)
        /\ Len(ret.cards) = RegisteredCounts[call.spread_type]
        /\ ret.card_count = RegisteredCounts[call.spread_type]
        /\ \A i \in 1..Len(ret.cards) :
               /\ ret.cards[i].position = spreads[call.spread_type].positions[i]
               /\ ret.cards[i].position \notin GenericLabels
               /\ ret.cards[i].position_index = i - 1
        /\ ret.question = call.question
        /\ call.spread_type = "celtic_cross" =>
               Cardinality({ret.cards[i].position : i \in 1..Len(ret.cards)}) = 10

C7_Witness ==
    /\ call.op = "create_reading"
    /\ call.spread_type = "celtic_cross"
    /\ call.question = "will I find love?"
    /\ ret.question = "will I find love?"
    /\ Len(ret.cards) = 10
    /\ ret.cards[10].position = "Final Outcome"

\* C8: create_reading with a spread type that is not registered fails with a
\* ValueError, shuffles nothing, draws no card and leaves the deck and the
\* shuffle count as they were.
C8_UnknownSpreadNoEffect ==
    [][(call'.op = "create_reading" /\ call'.spread_type \notin DOMAIN RegisteredCounts)
         => /\ IsError(ret')
            /\ ret'.error = "ValueError"
            /\ "cards" \notin DOMAIN ret'
            /\ shuffleCount' = shuffleCount
            /\ deck' = deck]_vars

C8_Witness ==
    /\ call.op = "create_reading"
    /\ call.spread_type = "unknown_spread"
    /\ IsError(ret)
    /\ shuffleCount = 1

(***************************************************************************)
(* Properties of the AstrologyService.                                     *)
(***************************************************************************)
\* the aspect table in its declaration order: name, angle and orb in degrees
AspectTable ==
    <<<<"Conjunction", 0, 8>>, <<"Opposition", 180, 8>>, <<"Trine", 120, 8>>,
      <<"Square", 90, 8>>, <<"Sextile", 60, 6>>>>

\* the k-th definition of the table contains the separation d (in steps)
InOrb(d, k) == Abs(d - AspectTable[k][2] * Unit) <= AspectTable[k][3] * Unit

\* the separation of two longitudes: min(|L1 - L2|, 360 - |L1 - L2|)
Separation(l1, l2) ==
    LET a == IF l1 >= l2 THEN l1 - l2 ELSE l2 - l1
    IN  IF a <= 360 * Unit - a THEN a ELSE 360 * Unit - a

\* C9: calculate_aspects records for a pair exactly the first definition, in
\* the order Conjunction(0,8), Opposition(180,8), Trine(120,8), Square(90,8),
\* Sextile(60,6), whose orb contains the separation, and nothing when none
\* contains it; longitudes 10 and 98 give a Square with orb 2.
C9_FirstMatchingAspect ==
    (call.op = "calculate_aspects" /\ Len(call.planets) = 2) =>
        LET p == call.planets
            d == Separation(p[1].longitude, p[2].longitude)
            matching == {k \in 1..5 : InOrb(d, k)}
        IN  /\ matching = {} => ret = <<>>
            /\ matching # {} =>
                   /\ Len(ret) = 1
                   /\ \E k \in matching :
                          /\ \A j \in matching : k <= j
                          /\ ret[1].aspect = AspectTable[k][1]
                          /\ ret[1].exact_angle = AspectTable[k][2] * Unit
                          /\ ret[1].orb = Abs(d - AspectTable[k][2] * Unit)
                          /\ ret[1].angle = d
                   /\ ret[1].planet1 = p[1].name
                   /\ ret[1].planet2 = p[2].name
            /\ (p[1].longitude = 10 * Unit /\ p[2].longitude = 98 * Unit) =>
                   /\ Len(ret) = 1
                   /\ ret[1].aspect = "Square"
                   /\ ret[1].orb = 2 * Unit

C9_Witness ==
    /\ call.op = "calculate_aspects"
    /\ call.planets[1].longitude = 10 * Unit
    /\ call.planets[2].longitude = 98 * Unit
    /\ Len(ret) = 1
    /\ ret[1].aspect = "Square"
    /\ ret[1].orb = 2 * Unit

\* the entry e, stored for longitude L, has a sign index k in 0..11 with the
\* sign's name, a degree in [0, 30) and 30 * k + degree = L
SignDegreeOf(e, L) ==
    /\ 0 <= e.degree
    /\ e.degree < 30 * Unit
    /\ \E k \in 0..11 :
           /\ e.sign = SIGNS[k + 1]
           /\ 30 * Unit * k + e.degree = L

\* C10: every stored position of a planet, a house cusp, the Ascendant and the
\* Midheaven has its sign index in 0..11, its degree in [0, 30) and
\* 30 * sign index + degree equal to the longitude the provider returned.
C10_SignAndDegree ==
    /\ (call.op = "calculate_natal_chart" /\ ~IsError(ret)) =>
           /\ \A i \in 1..Len(ret.planets) :
                  /\ ret.planets[i].longitude \in Longitudes
                  /\ SignDegreeOf(ret.planets[i], ret.planets[i].longitude)
                  /\ \E b \in 1..Len(PLANETS) :
                         /\ PLANETS[b] = ret.planets[i].name
                         /\ call.eph[b].ok
                         /\ call.eph[b].longitude = ret.planets[i].longitude
           /\ \A i \in 1..Len(ret.houses) :
                  SignDegreeOf(ret.houses[i], ret.houses[i].cusp)
    /\ call.op = "calculate_houses" =>
           /\ \A i \in 1..Len(ret) : SignDegreeOf(ret[i], ret[i].cusp)
           /\ call.hs.ok =>
                  /\ Len(ret) = 14
                  /\ \A i \in 1..12 : ret[i].cusp = call.hs.cusps[i]
                  /\ ret[13].cusp = call.hs.ascmc[1]
                  /\ ret[14].cusp = call.hs.ascmc[2]

C10_Witness ==
    /\ call.op = "calculate_natal_chart"
    /\ ~IsError(ret)
    /\ Len(ret.planets) = 10
    /\ Len(ret.houses) = 14
    /\ ret.planets[10].sign = "Pisces"
    /\ ret.planets[10].degree = 30 * Unit - 1
    /\ ret.houses[13].name = "Ascendant"

\* the bodies for which the provider answered in a chart request
Succeeded(eph) == {PLANETS[i] : i \in {j \in 1..Len(PLANETS) : eph[j].ok}}

\* C11: whichever bodies the provider fails for, calculate_natal_chart returns
\* a chart whose planets map holds exactly the bodies whose lookup succeeded,
\* each once, and whose aspects mention only bodies of that map.
C11_PartialChart ==
    (call.op = "calculate_natal_chart" /\ call.birth_date # NoInstant) =>
        /\ ~IsError(ret)
        /\ {ret.planets[i].name : i \in 1..Len(ret.planets)} = Succeeded(call.eph)
        /\ Len(ret.planets) = Cardinality(Succeeded(call.eph))
        /\ \A k \in 1..Len(ret.aspects) :
               /\ ret.aspects[k].planet1 \in Succeeded(call.eph)
               /\ ret.aspects[k].planet2 \in Succeeded(call.eph)
               /\ ret.aspects[k].planet1 # ret.aspects[k].planet2

C11_Witness ==
    /\ call.op = "calculate_natal_chart"
    /\ ~IsError(ret)
    /\ Succeeded(call.eph) = {"Sun", "Moon", "Venus", "Jupiter", "Saturn", "Uranus", "Pluto"}
    /\ Len(ret.planets) = 7
    /\ \E k \in 1..Len(ret.aspects) :
           ret.aspects[k].planet1 = "Moon" /\ ret.aspects[k].planet2 = "Venus"

\* the house map h is complete when the provider answered hs, empty otherwise
AllHousesOrNone(h, hs) ==
    IF hs.ok
    THEN /\ Len(h) = 14
         /\ [i \in 1..Len(h) |-> h[i].name] = HOUSES \o <<"Ascendant", "Midheaven">>
    ELSE h = <<>>

\* C12: calculate_houses returns the twelve houses, the Ascendant and the
\* Midheaven when the provider answers and an empty map when the provider
\* fails, never a part of them; the chart's houses are that same map.
C12_AllHousesOrNone ==
    /\ call.op = "calculate_houses" => AllHousesOrNone(ret, call.hs)
    /\ (call.op = "calculate_natal_chart" /\ ~IsError(ret)) =>
           AllHousesOrNone(ret.houses, call.hs)

C12_Witness ==
    /\ call.op = "calculate_houses"
    /\ ~call.hs.ok
    /\ ret = <<>>
    /\ providerCalls = 1

\* the days from 1990-01-01 to the day y-m-d of the Gregorian calendar
RECURSIVE DaysBeforeYear(_)
DaysBeforeYear(y) ==
    IF y <= 1990 THEN 0
    ELSE (IF IsLeap(y - 1) THEN 366 ELSE 365) + DaysBeforeYear(y - 1)

RECURSIVE DaysBeforeMonth(_, _)
DaysBeforeMonth(y, m) ==
    IF m <= 1 THEN 0 ELSE DaysIn(y, m - 1) + DaysBeforeMonth(y, m - 1)

DaysSince1990(y, m, d) == DaysBeforeYear(y) + DaysBeforeMonth(y, m) + d - 1

\* the Julian Day, in hours, of the instant whose UTC reading is the fields
\* of dt less its offset; 1990-01-01 00:00 UTC is the Julian Day 2447892.5
UtcJulianHours(dt) ==
    58749420 + 24 * DaysSince1990(dt.year, dt.month, dt.day) + dt.hour - dt.offset

\* C13 as claimed: calculate_julian_day fails exactly for an instant without
\* timezone information and returns a Julian Day only for an aware one.
C13_NaiveInstantFails ==
    call.op = "calculate_julian_day" => (IsError(ret) <=> ~call.dt.aware)

\* C13 as amended: calculate_julian_day fails only when there is no instant
\* at all; a datetime without timezone information is read as UTC and an
\* aware one is converted to UTC, and the Julian Day of that UTC instant is
\* returned.
C13_NaiveInstantIsUtc ==
    call.op = "calculate_julian_day" =>
        /\ IsError(ret) <=> call.dt = NoInstant
        /\ call.dt # NoInstant => ret.jd = UtcJulianHours(call.dt)

C13_Witness ==
    /\ call.op = "calculate_julian_day"
    /\ call.dt = [year |-> 1990, month |-> 5, day |-> 15, hour |-> 14, aware |-> FALSE,
                  offset |-> 0]
    /\ ~IsError(ret)
    /\ ret.jd = 58752650

\* C14: calculate_natal_chart with a missing date fails with an error before
\* the provider is called: no body lookup and no house lookup happens in that
\* run, while a run with a date makes all eleven provider calls.
C14_MissingDateFailsFirst ==
    call.op = "calculate_natal_chart" =>
        IF call.birth_date = NoInstant
        THEN IsError(ret) /\ providerCalls = 0
        ELSE ~IsError(ret) /\ providerCalls = Len(PLANETS) + 1

C14_Witness ==
    /\ call.op = "calculate_natal_chart"
    /\ call.birth_date = NoInstant
    /\ \E i \in 1..Len(PLANETS) : call.eph[i].ok
    /\ call.hs.ok
    /\ IsError(ret)
    /\ providerCalls = 0

\* the aspects of a transit in the order of the chain: name and angle in degrees
TransitTable ==
    <<<<"Conjunction", 0>>, <<"Opposition", 180>>, <<"Square", 90>>, <<"Trine", 120>>>>

\* the records of the transits list tr for the pair (t, n) and the a-th aspect
TransitHits(tr, t, n, a) ==
    {k \in 1..Len(tr) : /\ tr[k].transit_planet = t.name
                        /\ tr[k].natal_planet = n.name
                        /\ tr[k].aspect = TransitTable[a][1]}

\* C15: get_current_transits compares every obtained transit body with every
\* natal body, a body with its own natal position included: the pair is in the
\* result with Conjunction (0), Opposition (180), Square (90) or Trine (120)
\* exactly when its separation is within 2 degrees of that angle, once, with
\* the deviation as orb, and the result holds nothing else.
C15_AllTransitMatches ==
    call.op = "get_current_transits" =>
        LET cur == ret.current_planets
            nat == call.natal_planets
            tr == ret.transits
        IN  /\ {cur[i].name : i \in 1..Len(cur)} = Succeeded(call.eph)
            /\ \A i \in 1..Len(cur), j \in 1..Len(nat), a \in 1..Len(TransitTable) :
                   LET dev == Abs(Separation(cur[i].longitude, nat[j].longitude)
                                  - TransitTable[a][2] * Unit)
                       hits == TransitHits(tr, cur[i], nat[j], a)
                   IN  /\ hits # {} <=> dev <= 2 * Unit
                       /\ Cardinality(hits) <= 1
                       /\ \A k \in hits : tr[k].orb = dev
            /\ \A k \in 1..Len(tr) :
                   \E i \in 1..Len(cur), j \in 1..Len(nat), a \in 1..Len(TransitTable) :
                       k \in TransitHits(tr, cur[i], nat[j], a)

C15_Witness ==
    /\ call.op = "get_current_transits"
    /\ Len(ret.transits) >= 2
    /\ \E k \in 1..Len(ret.transits) :
           /\ ret.transits[k].transit_planet = "Sun"
           /\ ret.transits[k].natal_planet = "Sun"
           /\ ret.transits[k].aspect = "Conjunction"
           /\ ret.transits[k].orb = Unit

\* the daily aspects in the order they are tried: angle in degrees and name
DailyTable ==
    <<<<0, "Conjunction">>, <<60, "Sextile">>, <<90, "Square">>, <<120, "Trine">>,
      <<180, "Opposition">>>>

\* the records of the list r for the ordered pair of the bodies i and j
DailyHits(r, i, j) ==
    {k \in 1..Len(r) : r[k].planet1 = PLANETS[i] /\ r[k].planet2 = PLANETS[j]}

\* C16: for every unordered pair of bodies whose position was obtained,
\* get_daily_aspects records nothing when the separation is within 1 degree
\* of none of 0, 60, 90, 120, 180, and otherwise one record: the first of
\* these angles it is within 1 degree of, named Conjunction, Sextile, Square,
\* Trine, Opposition, with the deviation as orb; it records no other pair.
C16_DailyFirstMatch ==
    (call.op = "get_daily_aspects" /\ call.date # NoInstant) =>
        LET got == {i \in 1..Len(PLANETS) : call.eph[i].ok}
        IN  /\ \A i \in got, j \in got :
                   i < j =>
                       LET d == Separation(call.eph[i].longitude, call.eph[j].longitude)
                           matching == {k \in 1..Len(DailyTable) :
                                           Abs(d - DailyTable[k][1] * Unit) <= Unit}
                           hits == DailyHits(ret, i, j)
                       IN  IF matching = {} THEN hits = {}
                           ELSE /\ Cardinality(hits) = 1
                                /\ \A h \in hits :
                                       \E k \in matching :
                                           /\ \A m \in matching : k <= m
                                           /\ ret[h].aspect = DailyTable[k][2]
                                           /\ ret[h].orb = Abs(d - DailyTable[k][1] * Unit)
            /\ \A h \in 1..Len(ret) :
                   \E i \in got, j \in got : i < j /\ h \in DailyHits(ret, i, j)

C16_Witness ==
    /\ call.op = "get_daily_aspects"
    /\ Len(ret) >= 2
    /\ \E h \in 1..Len(ret) :
           /\ ret[h].planet1 = "Sun"
           /\ ret[h].planet2 = "Moon"
           /\ ret[h].aspect = "Sextile"
           /\ ret[h].orb = Unit

\* the ranks and suits of the minor arcana
Ranks == {"Ace", "Two", "Three", "Four", "Five", "Six", "Seven", "Eight", "Nine", "Ten",
          "Page", "Knight", "Queen", "King"}

Suits == {"Wands", "Cups", "Swords", "Pentacles"}

SuitCards(suit) == {rank \o " of " \o suit : rank \in Ranks}

\* r holds every entry of d exactly once and nothing else
IsPermutationOf(r, d) ==
    /\ Len(r) = Len(d)
    /\ \A k \in 1..Len(d) : Cardinality({i \in 1..Len(r) : r[i] = d[k]}) = 1

\* the orderings of d that rearrange its first MaxMoved entries
MovedPermutations(d) ==
    {[i \in 1..Len(d) |-> IF i <= MaxMoved THEN d[p[i]] ELSE d[i]] :
        p \in {q \in [1..MaxMoved -> 1..MaxMoved] :
                  \A a, b \in 1..MaxMoved : a # b => q[a] # q[b]}}

\* C17: after any sequence of shuffle_deck, draw_cards and create_reading the
\* deck is the same ordered list of 78 pairwise distinct names, 22 major
\* arcana and 14 cards of each of the 4 suits; shuffle_deck returns a
\* permutation of the whole deck, and every ordering of the deck is a possible
\* result (followed here for every ordering that rearranges the first
\* MaxMoved cards, the generator being free in its draws).
C17_DeckFixedShufflePermutes ==
    /\ deck = TAROT_CARDS
    /\ Len(deck) = 78
    /\ \A i, j \in 1..Len(deck) : i # j => deck[i] # deck[j]
    /\ \A suit \in Suits :
           Cardinality({i \in 1..Len(deck) : deck[i] \in SuitCards(suit)}) = 14
    /\ Cardinality({i \in 1..Len(deck) :
                       \A suit \in Suits : deck[i] \notin SuitCards(suit)}) = 22
    /\ call.op = "shuffle_deck" =>
           /\ IsPermutationOf(ret, deck)
           /\ MovedPermutations(deck)
                  \subseteq {shuffle_deck(deck, src).ret : src \in ShuffleSources}

C17_Witness ==
    /\ call.op = "shuffle_deck"
    /\ shuffleCount = 2
    /\ deck = TAROT_CARDS
    /\ SubSeq(ret, 1, 5) = <<"The Empress", "The High Priestess", "The Magician",
                             "The Fool", "The Emperor">>
    /\ IsPermutationOf(ret, TAROT_CARDS)

\* the categories with a table of their own, and the values the tables cover
DedicatedTypes == {"life_path", "expression", "soul_urge", "personality"}

TableValues == (1..9) \cup {11, 22, 33}

\* text is the meaning of the number in the category number_type: the entry of
\* the category's own table, which no other table and no generic text shares,
\* or for birth_day and attitude the generic text of the number
MeaningFromItsTable(number, number_type, text) ==
    /\ (number_type \in DedicatedTypes /\ number \in TableValues) =>
           /\ text = meanings[number_type][number]
           /\ \A n \in TableValues : text # default_meanings[n]
           /\ \A other \in DedicatedTypes, n \in TableValues :
                  (other # number_type \/ n # number) => text # meanings[other][n]
    /\ (number_type \in {"birth_day", "attitude"} /\ number \in TableValues) =>
           /\ text = default_meanings[number]
           /\ \A n \in TableValues : n # number => text # default_meanings[n]

\* C18: in a full reading the meaning of life_path, expression, soul_urge and
\* personality is the entry of that category's own table for every value in
\* 1..9, 11, 22, 33, and the meaning of birth_day and attitude, whose values
\* are always among these, is the generic text of the value.
C18_MeaningSource ==
    /\ call.op = "get_number_meaning" =>
           MeaningFromItsTable(call.number, call.number_type, ret)
    /\ (call.op = "create_full_reading" /\ call.birth_date # NoDate) =>
           /\ DOMAIN ret.interpretations = DedicatedTypes \cup {"birth_day", "attitude"}
           /\ \A k \in DOMAIN ret.interpretations :
                  /\ ret.interpretations[k].number = ret.numbers[k]
                  /\ MeaningFromItsTable(ret.numbers[k], k, ret.interpretations[k].meaning)
           /\ ret.numbers.birth_day \in TableValues
           /\ ret.numbers.attitude \in TableValues

C18_Witness ==
    /\ call.op = "create_full_reading"
    /\ call.full_name = <<"d", "y">>
    /\ call.birth_date = [year |-> 2000, month |-> 2, day |-> 29]
    /\ ret.interpretations.expression.number = 11
    /\ ret.interpretations.expression.meaning
           = "Destined to be a spiritual messenger. Your purpose is to inspire and enlighten others through intuitive wisdom."
    /\ ret.interpretations.birth_day.number = 11
    /\ ret.interpretations.birth_day.meaning = "Intuition, inspiration, enlightenment"

\* the cards that have a text pair of their own: the 22 major arcana, which
\* are the first 22 cards of the deck
CardsWithMeaning == {TAROT_CARDS[i] : i \in 1..22}

\* the text of a pair for the flag
TextFor(pair, is_reversed) == IF is_reversed THEN pair.reversed ELSE pair.upright

\* C19: get_card_meaning always returns a result; for a card of the meaning
\* table it is that card's own upright text when reversed is false and its own
\* reversed text when reversed is true, texts no other card and no generic
\* text shares; for any other name it is the generic upright or reversed
\* text, chosen by the same flag.
C19_CardMeaning ==
    call.op = "get_card_meaning" =>
        /\ DOMAIN ret = {"card", "meaning", "orientation"}
        /\ ret.card = call.card_name
        /\ ret.orientation = IF call.is_reversed THEN "reversed" ELSE "upright"
        /\ DOMAIN card_meanings = CardsWithMeaning
        /\ IF call.card_name \in CardsWithMeaning
           THEN /\ ret.meaning = TextFor(card_meanings[call.card_name], call.is_reversed)
                /\ ret.meaning # TextFor(card_meanings[call.card_name], ~call.is_reversed)
                /\ \A other \in CardsWithMeaning \ {call.card_name}, flag \in BOOLEAN :
                       ret.meaning # TextFor(card_meanings[other], flag)
                /\ ret.meaning \notin {"Positive energy, growth, opportunity",
                                       "Blocked energy, internal challenges, reflection needed"}
           ELSE ret.meaning = IF call.is_reversed
                              THEN "Blocked energy, internal challenges, reflection needed"
                              ELSE "Positive energy, growth, opportunity"

C19_Witness ==
    /\ call.op = "get_card_meaning"
    /\ call.card_name = "Ace of Cups"
    /\ call.is_reversed
    /\ ret.meaning = "Blocked energy, internal challenges, reflection needed"
    /\ ret.orientation = "reversed"

(***************************************************************************)
(* Properties of the NumerologyService: day and attitude numbers           *)
(***************************************************************************)
\* C21: for every birth date (month 1..12, day 1..31) the birth day number is
\* reduce_to_single_digit(day), and the attitude number is the reduction of
\* the digit sum of the integer 100 * month + day, which is also the
\* reduction of digitsum(month) + digitsum(day).
C21_DayAndAttitude ==
    /\ (call.op = "calculate_birth_day_number" /\ call.birth_date # NoDate) =>
           ret = reduce_to_single_digit(call.birth_date.day)
    /\ (call.op = "calculate_attitude_number" /\ call.birth_date # NoDate) =>
           /\ ret = reduce_to_single_digit(
                        DigitSum(100 * call.birth_date.month + call.birth_date.day))
           /\ ret = reduce_to_single_digit(
                        DigitSum(call.birth_date.month) + DigitSum(call.birth_date.day))

\* an attitude number that is a master number: 9 February gives 0+2+0+9 = 11,
\* while 2 + 9 is also 11; 10 January gives 0+1+1+0 = 2
C21_Witness ==
    /\ call.op = "calculate_attitude_number"
    /\ call.birth_date.month = 1
    /\ call.birth_date.day = 10
    /\ ret = 2

(***************************************************************************)
(* Properties of requests served at the same time.                         *)
(***************************************************************************)
\* what the operation of a thread returns when it runs alone on the services
\* as constructed, with the same provider answers and random choices
Alone(w) ==
    IF w.op = "calculate_expression_number"
    THEN calculate_expression_number(w.full_name)
    ELSE IF w.op = "create_reading"
    THEN create_reading(TAROT_CARDS, w.spread_type, "<None>", w.seed).ret
    ELSE calculate_natal_chart(w.birth_date, 55, 37, w.eph, w.hs).ret

\* C22: whatever the interleaving of the steps of the threads, an operation
\* that has returned gave the result it gives when run alone, and the tables
\* the services share (letter values, master numbers, spread registry, planet
\* and sign lists, deck) are what the constructors made them.
C22_ThreadsIsolated ==
    /\ \A t \in Threads : threads[t].pc = "done" => threads[t].out = Alone(threads[t])
    /\ \A t \in Threads :
           (threads[t].pc = "done" /\ threads[t].op = "calculate_natal_chart") =>
               threads[t].calls = calculate_natal_chart(threads[t].birth_date, 55, 37,
                                      threads[t].eph, threads[t].hs).calls
    /\ tables = ServiceTables
    /\ deck = TAROT_CARDS

\* thread 1 has returned a career reading, the second shuffle of the deck,
\* while thread 2 is in the middle of the planet loop of a chart
C22_Witness ==
    /\ threads[1].pc = "done"
    /\ threads[2].pc = "chart_planets"
    /\ threads[1].op = "create_reading"
    /\ threads[1].spread_type = "career"
    /\ threads[2].i = 4
    /\ shuffleCount = 2

(***************************************************************************)
(* Properties of the AstrologyService: the aspects of a map of bodies.     *)
(***************************************************************************)
\* an aspect record as (unordered body pair, aspect kind, separation, orb)
PairView(r) == <<{r.planet1, r.planet2}, r.aspect, r.angle, r.orb>>

SetView(records) == {PairView(records[i]) : i \in 1..Len(records)}

\* the positions map p with its bodies inserted in the order q
Reordered(p, q) == [i \in 1..Len(p) |-> p[q[i]]]

\* C23: as a set of (unordered body pair, aspect kind, separation, orb)
\* records, the result of calculate_aspects is the same for every order in
\* which the bodies were inserted into the positions map, and the
\* classification of a pair is the same when its two longitudes are exchanged.
C23_OrderIndependent ==
    call.op = "calculate_aspects" =>
        LET p == call.planets
        IN  /\ \A q \in Permutations(1..Len(p)) :
                   SetView(calculate_aspects(Reordered(p, q))) = SetView(ret)
            /\ \A i, j \in 1..Len(p) :
                   i # j => SetView(PairAspect(p[i], p[j])) = SetView(PairAspect(p[j], p[i]))

\* three bodies inserted with the later body first, each pair in aspect
C23_Witness ==
    /\ call.op = "calculate_aspects"
    /\ Len(call.planets) = 3
    /\ call.planets[1].name = "Mercury"
    /\ call.planets[2].name = "Sun"
    /\ call.planets[1].longitude = Deg(8)
    /\ call.planets[2].longitude = 0
    /\ call.planets[3].longitude = Deg(188)
    /\ Len(ret) = 3

\* the records of the list aspects for the bodies a and b, in either order
RecordsOf(aspects, a, b) ==
    {k \in 1..Len(aspects) : {aspects[k].planet1, aspects[k].planet2} = {a.name, b.name}}

\* the list aspects is what the positions map p asks for: one record for
\* each unordered pair of distinct bodies whose separation lies in an orb and
\* none for the other pairs; every record is of two distinct bodies of the
\* map, with their separation, the ideal angle of its kind and the orb
AspectsOfPairs(p, aspects) ==
    /\ \A i, j \in 1..Len(p) :
           i < j =>
               LET d == Separation(p[i].longitude, p[j].longitude)
                   n == Cardinality(RecordsOf(aspects, p[i], p[j]))
               IN  /\ n <= 1
                   /\ n = 1 <=> \E m \in 1..5 : InOrb(d, m)
    /\ \A k \in 1..Len(aspects) :
           LET r == aspects[k]
           IN  /\ r.planet1 # r.planet2
               /\ \E i, j \in 1..Len(p) :
                      /\ p[i].name = r.planet1
                      /\ p[j].name = r.planet2
                      /\ r.angle = Separation(p[i].longitude, p[j].longitude)
               /\ 0 <= r.angle
               /\ r.angle <= 180 * Unit
               /\ \E m \in 1..5 :
                      /\ r.aspect = AspectTable[m][1]
                      /\ r.exact_angle = AspectTable[m][2] * Unit
                      /\ r.orb = Abs(r.angle - r.exact_angle)
                      /\ r.orb <= AspectTable[m][3] * Unit
                      /\ AspectTable[m][3] = (IF r.aspect = "Sextile" THEN 6 ELSE 8)

\* C24: calculate_aspects examines every unordered pair of distinct bodies of
\* the positions map exactly once; the recorded separation is
\* min(|L1 - L2|, 360 - |L1 - L2|) and lies in [0, 180]; a pair yields at most
\* one record; in every record orb = |separation - ideal angle|, at most the
\* tolerance of the recorded kind (8, or 6 for Sextile).
C24_PairsOnce ==
    /\ call.op = "calculate_aspects" => AspectsOfPairs(call.planets, ret)
    /\ (call.op = "calculate_natal_chart" /\ ~IsError(ret)) =>
           AspectsOfPairs(ret.planets, ret.aspects)

\* of three bodies one pair is in aspect, at the edge of its orb, the two
\* other pairs are in none
C24_Witness ==
    /\ call.op = "calculate_aspects"
    /\ Len(call.planets) = 3
    /\ Len(ret) = 1
    /\ ret[1].aspect = "Square"
    /\ ret[1].orb = 8 * Unit
    /\ ret[1].angle = 98 * Unit

\* the definitions of the three classifiers in declaration order: kind, ideal
\* angle and orb in degrees
NatalDefs ==
    [k \in 1..Len(AspectTable) |->
        [name |-> AspectTable[k][1], angle |-> AspectTable[k][2], orb |-> AspectTable[k][3]]]

TransitDefs ==
    [k \in 1..Len(TransitTable) |->
        [name |-> TransitTable[k][1], angle |-> TransitTable[k][2], orb |-> 2]]

DailyDefs ==
    [k \in 1..Len(DailyTable) |->
        [name |-> DailyTable[k][2], angle |-> DailyTable[k][1], orb |-> 1]]

Deviation(defs, k, d) == Abs(d - defs[k].angle * Unit)

\* the definitions whose orb window holds the separation d
Matching(defs, d) == {k \in 1..Len(defs) : Deviation(defs, k, d) <= defs[k].orb * Unit}

\* the closest-orb classification of d: the kinds of the matching definitions
\* of least deviation
ClosestKinds(defs, d) ==
    {defs[k].name : k \in {c \in Matching(defs, d) :
                              \A m \in Matching(defs, d) :
                                  Deviation(defs, c, d) <= Deviation(defs, m, d)}}

\* at most one definition matches d, and the kinds recorded for a pair of
\* separation d are the closest-orb classification
OneClosest(defs, d, kinds) ==
    /\ Cardinality(Matching(defs, d)) <= 1
    /\ kinds = ClosestKinds(defs, d)

\* C25: in the three classifiers (natal orbs 8/8/8/8/6, transit orb 2, daily
\* orb 1) at most one definition matches a separation in [0, 180], and the
\* first-match classification the code records for a pair is the closest-orb
\* classification of its separation.
C25_FirstMatchIsClosest ==
    /\ call.op = "calculate_aspects" =>
           LET p == call.planets
           IN  \A i, j \in 1..Len(p) :
                   i < j =>
                       LET d == Separation(p[i].longitude, p[j].longitude)
                       IN  /\ OneClosest(NatalDefs, d,
                                  {ret[k].aspect : k \in RecordsOf(ret, p[i], p[j])})
                           /\ Cardinality(Matching(TransitDefs, d)) <= 1
                           /\ Cardinality(Matching(DailyDefs, d)) <= 1
    /\ call.op = "get_current_transits" =>
           LET cur == ret.current_planets
               nat == call.natal_planets
               tr == ret.transits
           IN  \A i \in 1..Len(cur), j \in 1..Len(nat) :
                   OneClosest(TransitDefs,
                       Separation(cur[i].longitude, nat[j].longitude),
                       {tr[k].aspect : k \in {h \in 1..Len(tr) :
                            /\ tr[h].transit_planet = cur[i].name
                            /\ tr[h].natal_planet = nat[j].name}})
    /\ (call.op = "get_daily_aspects" /\ call.date # NoInstant) =>
           \A i, j \in {b \in 1..Len(PLANETS) : call.eph[b].ok} :
               i < j =>
                   OneClosest(DailyDefs,
                       Separation(call.eph[i].longitude, call.eph[j].longitude),
                       {ret[h].aspect : h \in DailyHits(ret, i, j)})

\* two bodies 96 degrees apart: a Square, 24 degrees from the Trine
C25_Witness ==
    /\ call.op = "calculate_aspects"
    /\ Len(call.planets) = 2
    /\ call.planets[1].longitude = 0
    /\ call.planets[2].longitude = 96 * Unit
    /\ Len(ret) = 1
    /\ ret[1].aspect = "Square"

(***************************************************************************)
(* Properties of the TarotService: the meanings of the cards of the deck.  *)
(***************************************************************************)
DeckCards == {TAROT_CARDS[i] : i \in 1..Len(TAROT_CARDS)}

\* the 56 cards of the four suits, and the 22 other cards of the deck
MinorArcana == UNION {SuitCards(suit) : suit \in Suits}

MajorArcana == DeckCards \ MinorArcana

\* the generic fallback pair
GenericTexts ==
    {"Positive energy, growth, opportunity",
     "Blocked energy, internal challenges, reflection needed"}

\* the cards an operation has drawn: the result of draw_cards, the cards of a
\* reading
DrawnCards ==
    IF call.op = "draw_cards" THEN ret
    ELSE IF call.op = "create_reading" /\ ~IsError(ret) THEN ret.cards
    ELSE <<>>

\* C26 as stated: no card of the deck, drawn or asked for, is given a generic
\* text, every one of the 78 cards having an entry of its own.
C26_AllCardsHaveMeaning ==
    /\ (call.op = "get_card_meaning" /\ call.card_name \in DeckCards) =>
           ret.meaning \notin GenericTexts
    /\ \A i \in 1..Len(DrawnCards) :
           get_card_meaning(DrawnCards[i].name, DrawnCards[i].is_reversed).meaning
               \notin GenericTexts

\* C26: the 22 major arcana, and no other card, have an entry of their own in
\* the meaning table; every drawn card is a card of the deck; for a major
\* arcana card get_card_meaning returns that card's text, and for each of the
\* 56 cards of the four suits it returns the generic fallback pair.
C26_MajorArcanaHaveMeaning ==
    /\ Cardinality(DeckCards) = 78
    /\ Cardinality(MinorArcana) = 56
    /\ MinorArcana \subseteq DeckCards
    /\ DOMAIN card_meanings = MajorArcana
    /\ (call.op = "get_card_meaning" /\ call.card_name \in DeckCards) =>
           /\ ret.meaning \in GenericTexts <=> call.card_name \in MinorArcana
           /\ call.card_name \in MajorArcana =>
                  ret.meaning = TextFor(card_meanings[call.card_name], call.is_reversed)
    /\ \A i \in 1..Len(DrawnCards) :
           LET c == DrawnCards[i]
           IN  /\ c.name \in DeckCards
               /\ get_card_meaning(c.name, c.is_reversed).meaning \in GenericTexts
                      <=> c.name \in MinorArcana

\* a reading whose first card is of a suit and whose second card is a major
\* arcana card
C26_Witness ==
    /\ call.op = "create_reading"
    /\ ~IsError(ret)
    /\ Len(ret.cards) >= 2
    /\ ret.cards[1].name \in MinorArcana
    /\ ret.cards[2].name \in MajorArcana

(***************************************************************************)
(* Properties of the NumerologyService: missing inputs.                    *)
(***************************************************************************)
DateOps ==
    {"calculate_life_path_number", "calculate_birth_day_number",
     "calculate_attitude_number"}

\* C27: calculate_all_numbers always returns its six keys; a number whose
\* calculation fails inside (a missing birth date, a missing name) is
\* reported as 1, a value that valid dates and names have as well.
C27_ErrorsBecomeOne ==
    /\ call.op = "calculate_all_numbers" =>
           /\ DOMAIN ret = ProfileKeys
           /\ call.birth_date = NoDate =>
                  /\ ret.life_path = 1 /\ ret.birth_day = 1 /\ ret.attitude = 1
                  /\ \E d \in ValidDates : calculate_life_path_number(d) = 1
                  /\ \E d \in ValidDates : calculate_birth_day_number(d) = 1
                  /\ \E d \in ValidDates : calculate_attitude_number(d) = 1
           /\ call.full_name = NoName =>
                  /\ ret.expression = 1 /\ ret.soul_urge = 1 /\ ret.personality = 1
                  /\ \E n \in Names :
                         /\ calculate_expression_number(n) = 1
                         /\ calculate_soul_urge_number(n) = 1
                  /\ \E n \in Names : calculate_personality_number(n) = 1
    /\ (call.op \in DateOps /\ call.birth_date = NoDate) => ret = 1
    /\ (call.op \in NameOps /\ call.full_name = NoName) => ret = 1

\* a profile computed without a name and without a birth date
C27_Witness ==
    /\ call.op = "calculate_all_numbers"
    /\ call.birth_date = NoDate
    /\ call.full_name = NoName
    /\ \A k \in ProfileKeys : ret[k] = 1

\* the five keys of the spread registry
RegistryKeys == {"single", "three_card", "relationship", "career", "celtic_cross"}

\* the readings the bot would make for the user if the conversation state
\* were missing when the question arrives
ReadingsWithoutState(id) ==
    handle_tarot_question([Arrived(id) EXCEPT !.user_states = NoState], id,
                          <<"n", "o">>, TRUE, CHOOSE seed \in BotSeeds : TRUE).readings

\* C28: after any sequence of tarot callbacks and messages the spread type
\* held in a conversation state is one of the five registry keys, and so is
\* every spread type the bot passes to create_reading, which therefore never
\* answers with the unknown-spread error; callback data starting with tarot_
\* whose rest is no key of the mapping selects single, and so does a
\* conversation state that is missing when the question is handled.
C28_SpreadIsRegistryKey ==
    /\ DOMAIN spreads = RegistryKeys
    /\ \A id \in DOMAIN user_states :
          "spread_type" \in DOMAIN user_states[id] =>
              user_states[id].spread_type \in RegistryKeys
    /\ call.op \in {"handle_message", "handle_callback", "feature_command"} =>
          \A i \in 1..Len(ret.readings) :
              /\ ret.readings[i].spread_type \in RegistryKeys
              /\ "error" \notin DOMAIN ret.readings[i].reading
              /\ ret.readings[i].reading.spread_type = ret.readings[i].spread_type
    /\ (/\ call.op = "handle_callback"
        /\ StartsWith(call.update.data, <<"t", "a", "r", "o", "t", "_">>)
        /\ call.update.data # <<"t", "a", "r", "o", "t", "_", "m", "e", "n", "u">>
        /\ Replace(call.update.data, <<"t", "a", "r", "o", "t", "_">>)
              \notin {<<"s", "i", "n", "g", "l", "e">>,
                      <<"t", "h", "r", "e", "e">>,
                      <<"r", "e", "l", "a", "t", "i", "o", "n", "s", "h", "i", "p">>,
                      <<"c", "a", "r", "e", "e", "r">>,
                      <<"c", "e", "l", "t", "i", "c">>}
        /\ ret.replies = <<"tarot_question_request">>) =>
          user_states[call.id] = [step |-> "tarot_question", spread_type |-> "single"]
    /\ \A id \in DOMAIN db.users :
          /\ Len(ReadingsWithoutState(id)) = 1
          /\ ReadingsWithoutState(id)[1].spread_type = "single"

\* a reading of ten cards made for the Celtic Cross button
C28_Witness ==
    /\ call.op = "handle_message"
    /\ call.id \in DOMAIN call.before.user_states
    /\ call.before.user_states[call.id] =
          [step |-> "tarot_question", spread_type |-> "celtic_cross"]
    /\ Len(ret.readings) = 1
    /\ ret.readings[1].spread_type = "celtic_cross"
    /\ ret.readings[1].reading.card_count = 10
    /\ ret.replies = <<"generating_tarot", "tarot_reading">>
    /\ call.id \notin DOMAIN user_states

\* the user's row as the handler of the last update fetched it
RowBefore ==
    IF call.id \in DOMAIN call.before.db.users
    THEN call.before.db.users[call.id] ELSE NewUser

\* the last update came from a user who was on the free tier when it arrived
FreeTierRequest ==
    /\ call.op \in {"handle_callback", "handle_message", "feature_command"}
    /\ ~is_premium(RowBefore, call.before.now)

\* the last update asked for the daily horoscope, by the button or the command
HoroscopeRequest ==
    \/ call.op = "handle_callback" /\ call.update.data = <<"h", "o", "r", "o", "s", "c", "o", "p", "e", "_", "d", "a", "i", "l", "y">>
    \/ call.op = "feature_command" /\ call.update.command = "horoscope"

\* the last update asked for the feature, by its button or its command
FeatureRequest(button, command) ==
    \/ call.op = "handle_callback" /\ call.update.data = button
    \/ call.op = "feature_command" /\ call.update.command = command

Sent(text) == \E i \in 1..Len(ret.replies) : ret.replies[i] = text

\* C29: with the requests handled one after another and no counter reset, a
\* free-tier user is served the daily horoscope at most once and every later
\* request is refused with the limit message; daily_horoscopes_used grows by
\* exactly 1 with each horoscope generated and saved and is left alone by a
\* refused or failed request; a free-tier user is never served the natal
\* chart, the numerology reading or the AI chat.
C29_FreeTierLimits ==
    /\ (FreeTierRequest /\ HoroscopeRequest) =>
          /\ Sent("daily_horoscope") => RowBefore.daily_horoscopes_used = 0
          /\ RowBefore.daily_horoscopes_used >= 1 =>
                /\ ret.replies = <<"daily_limit_reached">>
                /\ db.users[call.id] = RowBefore
                /\ db.horoscopes = call.before.db.horoscopes
    /\ \A id \in DOMAIN db.users :
          db.users[id].subscription_type = "free" =>
              Len(SelectSeq(db.horoscopes, LAMBDA h : h.user_id = id)) <= 1
    /\ call.op \in {"handle_callback", "handle_message", "feature_command",
                    "start_command", "handle_location"} =>
          /\ db.users[call.id].daily_horoscopes_used =
                 RowBefore.daily_horoscopes_used
                 + (Len(db.horoscopes) - Len(call.before.db.horoscopes))
          /\ Len(db.horoscopes) - Len(call.before.db.horoscopes) =
                 (IF HoroscopeRequest /\ Sent("daily_horoscope") THEN 1 ELSE 0)
          /\ (HoroscopeRequest /\ ~Sent("daily_horoscope")) =>
                 db.users[call.id].daily_horoscopes_used =
                     RowBefore.daily_horoscopes_used
    /\ FreeTierRequest =>
          /\ ~Sent("natal_chart") /\ ~Sent("numerology_reading")
          /\ ~Sent("chat_response") /\ ~Sent("ai_chat_activated")
          /\ FeatureRequest(<<"a", "i", "_", "c", "h", "a", "t">>, "ai_chat") =>
                 ret.replies = <<"feature_not_available">>

\* the step of the user of the last update, before and after it was handled;
\* "<None>" is the cleared state
StepBefore == StepOf(StateOf(call.before, call.id))

StepAfter == StepOf(StateOf([user_states |-> user_states], call.id))

OnboardingSteps == {"birth_date", "birth_time", "birth_place"}

\* the step that follows in the order birth_date, birth_time, birth_place,
\* cleared
StepFollowing(step) ==
    CASE step = "birth_date" -> "birth_time"
      [] step = "birth_time" -> "birth_place"
      [] step = "birth_place" -> "<None>"

\* the texts of the model that are dates, with the date each one names
DateTexts ==
    {<<<<"1", "5", ".", "0", "5", ".", "1", "9", "9", "0">>, [year |-> 1990, month |-> 5, day |-> 15]>>,
     <<<<" ", "1", "9", "9", "0", "-", "0", "5", "-", "1", "5", " ">>, [year |-> 1990, month |-> 5, day |-> 15]>>,
     <<<<"5", "/", "1", "5", "/", "1", "9", "9", "0">>, [year |-> 1990, month |-> 5, day |-> 15]>>,
     <<<<"1", "9", "9", "0", "-", "5", "-", " ", "5">>, [year |-> 1990, month |-> 5, day |-> 5]>>}

\* the texts of the model that are times or skip words, with the time stored
TimeTexts == {<<<<"7", ":", "0", "5">>, "07:05">>, <<<<"S", "k", "i", "p">>, "12:00">>}

Named(table, text) == {p[2] : p \in {q \in table : q[1] = text}}

\* nothing the bot keeps about the user changed
UserUnchanged ==
    /\ user_states = call.before.user_states
    /\ db.users[call.id] = RowBefore

====
